---- MODULE Spec2Model ----
(***************************************************************************)
(* Model of the code-graph analyzer's two-pass pipeline:                   *)
(*   scan -> Pass 1 (per-file parsers) -> collectResults (merge by         *)
(*   entityId) -> Pass 2 (RelationshipResolver) -> batched MERGE into the  *)
(*   graph store.                                                          *)
(* Strings are modelled as strings: qualified names are built with the     *)
(* same concatenations the parsers and resolvers use.                      *)
(***************************************************************************)
EXTENDS Integers, Sequences, FiniteSets, Bags, TLC

VARIABLES
    pc,            \* position of AnalyzerService.analyze
    run,           \* number of analyze() invocations started
    tree,          \* the target directory and its broken files, unchanged between runs
    files,         \* analyze's files: what FileScanner.scan returned
    parseState,    \* per file path: state of its Pass-1 parse promise
    tempDir,       \* config.tempDir: the per-file JSON results written by Pass 1
    tsResults,     \* Parser.tsResults (Map filePath -> result), insertion order
    pass1Nodes,    \* collectResults().allNodes
    pass1Relationships, \* collectResults().allRelationships
    nodeIndex,     \* RelationshipResolver.nodeIndex
    finalRelationships, \* uniqueRelationships handed to the store writer
    writeQueue,    \* batches still to submit in this write phase
    driver,        \* Neo4jClient.driver: "null" or "open"
    store,         \* the graph store: [nodes, rels]
    outcome,       \* how the current analyze() settled
    log,           \* the transactions submitted in the current run, with their results
    dispatched,  \* per scanned file: the branch of the switch of Parser.parseFiles it took
    history,       \* per finished run: its outcome, the merged nodes, the store it left
    options,       \* analyze command: the options commander parsed from the command line
    finalOptions,  \* analyze command: finalOptions
    cliPc,         \* analyze command: position of the action callback
    cliClient,     \* analyze command: neo4jConfig of its neo4jClient
    serviceClient, \* analyze command: neo4jConfig of the AnalyzerService's neo4jClient
    connected,     \* analyze command: connected
    databases,     \* per Neo4j database (uri, name): its nodes and whether the schema was applied
    exitCode,      \* process.exitCode
    handler,       \* MCP server: which of the repository's two server sources runs
    mcpPc,         \* MCP server: position of the run_analyzer callback, or "exited"
    directoryArg,  \* MCP server: the directory argument of the call
    tmp,           \* config.tempDir on disk: whether it exists, and the files in it
    thrown,        \* MCP server: what analyze rejected with
    response,      \* MCP server: the response the callback returned
    ending,        \* MCP server: how the analysis the call started ended
    envStorageBatchSize, \* storage: process.env.STORAGE_BATCH_SIZE as its characters, <<>> when unset or empty
    batchSize,     \* storage: StorageManager.batchSize, that is config.storageBatchSize
    finalRecords,  \* storage: finalNodes and uniqueRelationships handed to the storage manager
    saveCalls,     \* storage: the calls of saveNodesBatch / saveRelationshipsBatch still to make or return from
    loopIndex,     \* storage: i of the batch loop of the current call
    submitted,     \* storage: the batches handed to runTransaction, in order
    invocations,   \* Pass 1: per analyze invocation of the process, its position, the state of each parseFile promise, what collectResults merged
    childProcesses, \* Pass 1: the live Python child processes, each [invocation, path]
    tempFiles,     \* Pass 1: the result files in config.tempDir, each [invocation, path] of the parseFile that wrote it
    unlinked,      \* Pass 1: the result files deleted so far, each with the invocation that deleted it
    analyzeCall,   \* Neo4j client: the current analyze call: its position, its number, the batches left to store, how it settled
    neo4jClient,   \* Neo4j client: the Neo4jClient of the service: its driver field, 0 for null or the number of a driver
    drivers        \* Neo4j client: every driver neo4j.driver() created: whether it is open, and the state of each session it gave out

(***************************************************************************)
(* Bounds of the model.                                                    *)
(***************************************************************************)
\* number of analyze() invocations over the same tree
MaxRuns == 2
\* config.storageBatchSize (default 100, any positive STORAGE_BATCH_SIZE);
\* kept small so that a write phase has several batches
storageBatchSize == 2
\* length of the text of STORAGE_BATCH_SIZE
MaxEnvLen == 3
\* number of nodes, and of relationships, handed to the storage manager
MaxRecords == 3
\* the number of CPUs of the machine
cpuCount == 2
\* number of analyze invocations of one process
MaxInvocations == 2
\* number of transactions of a write phase
MaxBatches == 2

(***************************************************************************)
(* Generic helpers.                                                        *)
(***************************************************************************)
RECURSIVE Flatten(_)
Flatten(ss) == IF ss = <<>> THEN <<>> ELSE Head(ss) \o Flatten(Tail(ss))

Range(s) == { s[i] : i \in 1..Len(s) }

Min(a, b) == IF a < b THEN a ELSE b

\* all orderings of a finite set, as sequences
RECURSIVE Orderings(_)
Orderings(S) ==
    IF S = {} THEN { <<>> }
    ELSE UNION { { <<x>> \o o : o \in Orderings(S \ {x}) } : x \in S }

(***************************************************************************)
(* JavaScript Map keyed by entityId: a sequence of records in insertion    *)
(* order.  set() of a present key replaces the value in place, set() of a  *)
(* new key appends.                                                        *)
(***************************************************************************)
MapHas(m, id) == \E i \in 1..Len(m) : m[i].entityId = id

MapIndex(m, id) == CHOOSE i \in 1..Len(m) : m[i].entityId = id

MapGet(m, id) == m[MapIndex(m, id)]

\* the values of a Map after set(rec.entityId, rec) for each rec of recs in
\* turn: a key keeps the position of its first set() and the value of its last
MapSetAll_Push(m, recs) == m \o recs

MapSetAll(m, recs) ==
    LET s == m \o recs
        indices == [ i \in 1..Len(s) |-> i ]
        IsFirst(i) == \A j \in 1..(i - 1) : s[j].entityId # s[i].entityId
        firsts == SelectSeq(indices, IsFirst)
        LastOf(i) == CHOOSE j \in i..Len(s) :
                        /\ s[j].entityId = s[i].entityId
                        /\ \A k \in (j + 1)..Len(s) : s[k].entityId # s[i].entityId
    IN  [ n \in 1..Len(firsts) |-> s[LastOf(firsts[n])] ]

(***************************************************************************)
(* parser-utils.ts (not among the sources): the identifier is an encoding  *)
(* of (kind, qualifiedName); resolveImportPath of an absolute path is that *)
(* path.                                                                   *)
(***************************************************************************)
generateEntityId(kind, qualifiedName) == kind \o ":" \o qualifiedName

\* an absolute path and a package name resolve to themselves; ts-morph
\* resolves the relative specifiers of the source files of the model
resolveImportPath(sourcePath, importPath) == importPath

(***************************************************************************)
(* Records.                                                                *)
(***************************************************************************)
\* AstNode.  isExported is the top-level field; properties is the set of
\* truthy flags of node.properties; includePath is properties.includePath.
AstNode(entityId, kind, name, filePath, language, startLine, isExported, properties, includePath) ==
    [ entityId |-> entityId, kind |-> kind, name |-> name, filePath |-> filePath,
      language |-> language, startLine |-> startLine, isExported |-> isExported,
      properties |-> properties, includePath |-> includePath ]

\* RelationshipInfo.  isPlaceholder is properties.isPlaceholder:
\* "true", "false" or "undefined" (no such property).
RelationshipInfo(entityId, type, sourceId, targetId, isPlaceholder) ==
    [ entityId |-> entityId, type |-> type, sourceId |-> sourceId,
      targetId |-> targetId, isPlaceholder |-> isPlaceholder ]

\* SingleFileParseResult
ParseResult(filePath, nodes, relationships) ==
    [ filePath |-> filePath, nodes |-> nodes, relationships |-> relationships ]

addNode(result, node) == [result EXCEPT !.nodes = Append(@, node)]

addRelationship(result, rel) == [result EXCEPT !.relationships = Append(@, rel)]

\* A declaration as the TS language service hands it to the resolvers.
Decl(declKind, filePath, name, startLine, parentName, parentStartLine) ==
    [ declKind |-> declKind, filePath |-> filePath, name |-> name, startLine |-> startLine,
      parentName |-> parentName, parentStartLine |-> parentStartLine ]

\* no symbol / no declaration
NoDecl == Decl("none", "", "", 0, "", 0)

(***************************************************************************)
(* Source trees.  A TS/JS source file is given as ts-morph presents it:    *)
(* its import declarations, function-likes, classes, interfaces and        *)
(* variable statements, with the declarations its expressions resolve to.  *)
(***************************************************************************)
PathA == "/w/a.ts"
PathB == "/w/b.ts"
\* a file of a package under node_modules, which the ignore patterns match
PathIgnored == "/w/node_modules/x/index.d.ts"

\* declarations of b.ts
DeclFuncB == Decl("FunctionDeclaration", PathB, "funcB", 1, "", 0)
DeclBase == Decl("ClassDeclaration", PathB, "Base", 3, "", 0)
DeclBaseRun == Decl("MethodDeclaration", PathB, "run", 4, "Base", 3)
DeclShape == Decl("InterfaceDeclaration", PathB, "Shape", 6, "", 0)
DeclLimit == Decl("VariableDeclaration", PathB, "LIMIT", 8, "", 0)
DeclHelper == Decl("ArrowFunctionVariable", PathB, "helper", 9, "", 0)
\* declarations of a.ts
DeclFuncA == Decl("FunctionDeclaration", PathA, "funcA", 3, "", 0)
DeclFuncAParamP == Decl("Parameter", PathA, "p", 3, "funcA", 3)
\* console.log: a method signature of lib.dom.d.ts, a file outside the run
DeclConsoleLog == Decl("MethodSignature", "/lib/lib.dom.d.ts", "log", 100, "Console", 90)
\* a class of a package outside the run
DeclExternalBase == Decl("ClassDeclaration", PathIgnored, "Widget", 1, "", 0)

Call(target, line) == [target |-> target, line |-> line]

Catch(line, binding) == [line |-> line, binding |-> binding]

ImportDecl(moduleSpecifier, startLine, resolvedSourceFile, namedImports, defaultImport, namespaceImport) ==
    [ moduleSpecifier |-> moduleSpecifier, startLine |-> startLine,
      resolvedSourceFile |-> resolvedSourceFile, namedImports |-> namedImports,
      defaultImport |-> defaultImport, namespaceImport |-> namespaceImport ]

\* a function-like: form is "FunctionDeclaration" or "ArrowFunction" (bound to
\* a variable declaration, whose name and start line it takes)
FunctionLike(form, name, startLine, isExported, params, calls, assignments, catches) ==
    [ form |-> form, name |-> name, startLine |-> startLine, isExported |-> isExported,
      params |-> params, calls |-> calls, assignments |-> assignments, catches |-> catches ]

Method(name, startLine, params, calls, assignments, catches) ==
    [ name |-> name, startLine |-> startLine, params |-> params, calls |-> calls,
      assignments |-> assignments, catches |-> catches ]

ClassDecl(name, startLine, isExported, extends, implements, methods) ==
    [ name |-> name, startLine |-> startLine, isExported |-> isExported,
      extends |-> extends, implements |-> implements, methods |-> methods ]

InterfaceDecl(name, startLine, isExported, extends, methods) ==
    [ name |-> name, startLine |-> startLine, isExported |-> isExported,
      extends |-> extends, methods |-> methods ]

\* a declaration of a variable statement; functionInitializer: its initializer
\* is a function expression or an arrow function
VariableDecl(name, startLine, isExported, functionInitializer) ==
    [ name |-> name, startLine |-> startLine, isExported |-> isExported,
      functionInitializer |-> functionInitializer ]

SourceFileA ==
    [ path |-> PathA, language |-> "TypeScript",
      imports |-> << ImportDecl("./b", 1, PathB, <<"funcB", "Base", "Shape", "LIMIT", "helper", "missing">>, "", ""),
                     ImportDecl("lodash", 2, "", <<>>, "_", ""),
                     ImportDecl("x", 9, PathIgnored, <<"Widget">>, "", ""),
                     ImportDecl("./b", 13, PathB, <<>>, "", "ns") >>,
      functions |-> << FunctionLike("FunctionDeclaration", "funcA", 3, TRUE, <<"p">>,
                          << Call(DeclFuncB, 4), Call(DeclFuncB, 5), Call(DeclHelper, 5),
                             Call(DeclConsoleLog, 6), Call(NoDecl, 6) >>,
                          << DeclLimit, DeclFuncAParamP >>,
                          << Catch(7, "e"), Catch(8, "") >>) >>,
      classes |-> << ClassDecl("Derived", 10, FALSE, DeclBase, <<DeclShape>>,
                          << Method("go", 11, <<"q">>, << Call(DeclBaseRun, 12), Call(DeclFuncA, 12) >>, <<>>, <<>>) >>),
                     ClassDecl("Gadget", 14, FALSE, DeclExternalBase, <<>>, <<>>) >>,
      interfaces |-> <<>>,
      variables |-> <<>> ]

SourceFileB ==
    [ path |-> PathB, language |-> "TypeScript",
      imports |-> <<>>,
      functions |-> << FunctionLike("FunctionDeclaration", "funcB", 1, TRUE, <<"x">>,
                          << Call(DeclConsoleLog, 2) >>, <<>>, <<>>),
                       FunctionLike("ArrowFunction", "helper", 9, TRUE, <<>>, <<>>, <<>>, <<>>) >>,
      classes |-> << ClassDecl("Base", 3, TRUE, NoDecl, <<>>,
                          << Method("run", 4, <<"y">>, <<>>, <<>>, <<>>) >>) >>,
      interfaces |-> << InterfaceDecl("Shape", 6, TRUE, <<>>, << Method("area", 7, <<>>, <<>>, <<>>, <<>>) >>) >>,
      variables |-> << VariableDecl("LIMIT", 8, TRUE, FALSE),
                       VariableDecl("helper", 9, TRUE, TRUE) >> ]

\* what the shared ts-morph project resolves a path to
TsSourceFiles == { SourceFileA, SourceFileB }

HasTsSourceFile(path) == \E sf \in TsSourceFiles : sf.path = path

TsSourceFile(path) == CHOOSE sf \in TsSourceFiles : sf.path = path

(***************************************************************************)
(* Pass 1, TS/JS: the parsers of src/analyzer/parsers, each threading the  *)
(* per-file result it appends to.                                          *)
(***************************************************************************)
RECURSIVE parseImportsFrom(_, _, _)
parseImportsFrom(declarations, fileNode, result) ==
    IF declarations = <<>> THEN result
    ELSE LET declaration == Head(declarations)
             importName == declaration.moduleSpecifier \o ":" \o ToString(declaration.startLine)
             qualifiedName == fileNode.filePath \o ":" \o importName
             entityId == generateEntityId("import", qualifiedName)
             importNode == AstNode(entityId, "Import", importName, fileNode.filePath,
                                   "TypeScript", declaration.startLine, FALSE, {"moduleSpecifier"}, "")
             relEntityId == generateEntityId("imports", fileNode.entityId \o ":" \o entityId)
             importRel == RelationshipInfo(relEntityId, "IMPORTS", fileNode.entityId, entityId, "undefined")
         IN  parseImportsFrom(Tail(declarations), fileNode,
                              addRelationship(addNode(result, importNode), importRel))

parseImports(sourceFile, fileNode, result) ==
    parseImportsFrom(sourceFile.imports, fileNode, result)

RECURSIVE parseParameters(_, _, _)
parseParameters(parameters, parentNode, result) ==
    IF parameters = <<>> THEN result
    ELSE LET name == Head(parameters)
             qualifiedName == parentNode.entityId \o ":" \o name
             entityId == generateEntityId("parameter", qualifiedName)
             paramNode == AstNode(entityId, "Parameter", name, parentNode.filePath,
                                  "TypeScript", parentNode.startLine, FALSE, {"parentId"}, "")
             hasParamRelEntityId == generateEntityId("has_parameter", parentNode.entityId \o ":" \o entityId)
             hasParamRel == RelationshipInfo(hasParamRelEntityId, "HAS_PARAMETER",
                                             parentNode.entityId, entityId, "undefined")
         IN  parseParameters(Tail(parameters), parentNode,
                 IF \E i \in 1..Len(result.nodes) : result.nodes[i].entityId = entityId
                 THEN result
                 ELSE addRelationship(addNode(result, paramNode), hasParamRel))

RECURSIVE parseFunctionsFrom(_, _, _)
parseFunctionsFrom(functions, fileNode, result) ==
    IF functions = <<>> THEN result
    ELSE LET declaration == Head(functions)
             \* a function declaration keeps its own name and line; an arrow
             \* function bound to a variable takes the variable's
             name == declaration.name
             startLine == declaration.startLine
             uniqueQualifiedName == fileNode.filePath \o ":" \o name \o ":" \o ToString(startLine)
             entityId == generateEntityId("function", uniqueQualifiedName)
             functionNode == AstNode(entityId, "Function", name, fileNode.filePath,
                                     "TypeScript", startLine, declaration.isExported, {}, "")
         IN  parseFunctionsFrom(Tail(functions), fileNode,
                 parseParameters(declaration.params, functionNode, addNode(result, functionNode)))

parseFunctions(sourceFile, fileNode, result) ==
    parseFunctionsFrom(sourceFile.functions, fileNode, result)

RECURSIVE parseClassMethods(_, _, _)
parseClassMethods(methods, classNode, result) ==
    IF methods = <<>> THEN result
    ELSE LET declaration == Head(methods)
             name == declaration.name
             qualifiedName == classNode.filePath \o ":" \o classNode.name \o "." \o name
             entityId == generateEntityId("method", qualifiedName)
             methodNode == AstNode(entityId, "Method", name, classNode.filePath,
                                   "TypeScript", declaration.startLine, FALSE, {"parentId"}, "")
             hasMethodRelEntityId == generateEntityId("has_method", classNode.entityId \o ":" \o entityId)
             hasMethodRel == RelationshipInfo(hasMethodRelEntityId, "HAS_METHOD",
                                              classNode.entityId, entityId, "undefined")
         IN  parseClassMethods(Tail(methods), classNode,
                 parseParameters(declaration.params, methodNode,
                     addRelationship(addNode(result, methodNode), hasMethodRel)))

RECURSIVE parseClassesFrom(_, _, _)
parseClassesFrom(classes, fileNode, result) ==
    IF classes = <<>> THEN result
    ELSE LET declaration == Head(classes)
             name == declaration.name
             qualifiedName == fileNode.filePath \o ":" \o name
             entityId == generateEntityId("class", qualifiedName)
             classNode == AstNode(entityId, "Class", name, fileNode.filePath,
                                  "TypeScript", declaration.startLine, declaration.isExported, {}, "")
         IN  parseClassesFrom(Tail(classes), fileNode,
                 parseClassMethods(declaration.methods, classNode, addNode(result, classNode)))

parseClasses(sourceFile, fileNode, result) ==
    parseClassesFrom(sourceFile.classes, fileNode, result)

RECURSIVE parseVariablesFrom(_, _, _)
parseVariablesFrom(declarations, fileNode, result) ==
    IF declarations = <<>> THEN result
    ELSE LET declaration == Head(declarations)
             name == declaration.name
             qualifiedName == fileNode.filePath \o ":" \o name
             uniqueQualifiedName == qualifiedName \o ":" \o ToString(declaration.startLine)
             entityId == generateEntityId("variable", uniqueQualifiedName)
             variableNode == AstNode(entityId, "Variable", name, fileNode.filePath,
                                     "TypeScript", declaration.startLine, declaration.isExported, {}, "")
         IN  parseVariablesFrom(Tail(declarations), fileNode,
                 IF declaration.functionInitializer THEN result ELSE addNode(result, variableNode))

parseVariables(sourceFile, fileNode, result) ==
    parseVariablesFrom(sourceFile.variables, fileNode, result)

RECURSIVE parseInterfaceMethods(_, _, _)
parseInterfaceMethods(methods, interfaceNode, result) ==
    IF methods = <<>> THEN result
    ELSE LET signature == Head(methods)
             name == signature.name
             qualifiedName == interfaceNode.filePath \o ":" \o interfaceNode.name \o "." \o name
             entityId == generateEntityId("method", qualifiedName)
             methodNode == AstNode(entityId, "Method", name, interfaceNode.filePath,
                                   "TypeScript", signature.startLine, FALSE, {"parentId", "isSignature"}, "")
             hasMethodRelEntityId == generateEntityId("has_method", interfaceNode.entityId \o ":" \o entityId)
             hasMethodRel == RelationshipInfo(hasMethodRelEntityId, "HAS_METHOD",
                                              interfaceNode.entityId, entityId, "undefined")
         IN  parseInterfaceMethods(Tail(methods), interfaceNode,
                 parseParameters(signature.params, methodNode,
                     addRelationship(addNode(result, methodNode), hasMethodRel)))

RECURSIVE parseInterfacesFrom(_, _, _)
parseInterfacesFrom(interfaces, fileNode, result) ==
    IF interfaces = <<>> THEN result
    ELSE LET declaration == Head(interfaces)
             name == declaration.name
             qualifiedName == fileNode.filePath \o ":" \o name
             entityId == generateEntityId("interface", qualifiedName)
             interfaceNode == AstNode(entityId, "Interface", name, fileNode.filePath,
                                      "TypeScript", declaration.startLine, declaration.isExported, {}, "")
         IN  parseInterfacesFrom(Tail(interfaces), fileNode,
                 parseInterfaceMethods(declaration.methods, interfaceNode, addNode(result, interfaceNode)))

parseInterfaces(sourceFile, fileNode, result) ==
    parseInterfacesFrom(sourceFile.interfaces, fileNode, result)

\* the body of the per-file loop of Parser._parseTsProjectFiles: the File node,
\* then the individual parsers in the order the code calls them
parseTsSourceFile(sourceFile) ==
    LET filePath == sourceFile.path
        fileEntityId == generateEntityId("file", filePath)
        fileNode == AstNode(fileEntityId, "File", filePath, filePath,
                            sourceFile.language, 1, FALSE, {}, "")
        result == ParseResult(filePath, <<fileNode>>, <<>>)
    IN  parseInterfaces(sourceFile, fileNode,
          parseVariables(sourceFile, fileNode,
            parseClasses(sourceFile, fileNode,
              parseFunctions(sourceFile, fileNode,
                parseImports(sourceFile, fileNode, result)))))

(***************************************************************************)
(* Pass 1, tree-sitter parsers and the Python subprocess.                  *)
(***************************************************************************)
\* Parser.SyntaxNode of tree-sitter: the type of the node, the text of its
\* name field, the line it starts on and its named children in source order.
\* Children that no visitor handles and that have no named descendants (the
\* identifiers, the modifiers, the types) are left out of the trees.
SyntaxNode(type, name, startLine, namedChildren) ==
    [ type |-> type, name |-> name, startLine |-> startLine, namedChildren |-> namedChildren ]

IncludeDirective(includePath, isSystemInclude, startLine) ==
    [ includePath |-> includePath, isSystemInclude |-> isSystemInclude, startLine |-> startLine ]

\* two compilation units that declare the same fully-qualified class
JavaFileX ==
    [ path |-> "/w/x/Calc.java",
      rootNode |-> SyntaxNode("program", "", 1, <<
          SyntaxNode("package_declaration", "com.ex", 1, <<>>),
          SyntaxNode("class_declaration", "Calc", 3, <<
              SyntaxNode("class_body", "", 3, <<
                  SyntaxNode("method_declaration", "add", 4, <<>>) >>) >>) >>) ]

JavaFileY ==
    [ path |-> "/w/y/Calc.java",
      rootNode |-> SyntaxNode("program", "", 1, <<
          SyntaxNode("package_declaration", "com.ex", 1, <<>>),
          SyntaxNode("class_declaration", "Calc", 5, <<
              SyntaxNode("class_body", "", 5, <<
                  SyntaxNode("method_declaration", "add", 6, <<>>),
                  SyntaxNode("method_declaration", "sub", 7, <<>>) >>) >>) >>) ]

\* a compilation unit whose class Outer holds a method, a nested class Inner
\* with a method of its own, and after Inner a method and a field of Outer;
\* an enum follows the class
JavaFileOuter ==
    [ path |-> "/w/Outer.java",
      rootNode |-> SyntaxNode("program", "", 1, <<
          SyntaxNode("class_declaration", "Outer", 1, <<
              SyntaxNode("class_body", "", 1, <<
                  SyntaxNode("method_declaration", "run", 2, <<>>),
                  SyntaxNode("class_declaration", "Inner", 3, <<
                      SyntaxNode("class_body", "", 3, <<
                          SyntaxNode("method_declaration", "get", 4, <<>>) >>) >>),
                  SyntaxNode("method_declaration", "reset", 6, <<>>),
                  SyntaxNode("field_declaration", "total", 7, <<>>) >>) >>),
          SyntaxNode("enum_declaration", "Mode", 9, <<>>) >>) ]

CppFileMain ==
    [ path |-> "/w/main.cpp", language |-> "C++",
      includes |-> << IncludeDirective("stdio.h", TRUE, 1), IncludeDirective("util.h", FALSE, 2) >> ]

\* JavaAstVisitor.  A visitor is the state of the object: the nodes and
\* relationships pushed so far (result), fileNode, currentPackage and
\* currentClassOrInterfaceId; null is "".  A member carries parentId.
visitPackageDeclaration(node, visitor) ==
    LET fileNode == visitor.fileNode
        packageName == node.name
        entityId == generateEntityId("packagedeclaration", fileNode.filePath \o ":" \o packageName)
        packageNode == AstNode(entityId, "PackageDeclaration", packageName, fileNode.filePath,
                               "Java", node.startLine, FALSE, {}, "")
        relEntityId == generateEntityId("declares_package", fileNode.entityId \o ":" \o entityId)
        rel == RelationshipInfo(relEntityId, "DECLARES_PACKAGE", fileNode.entityId, entityId, "undefined")
    IN  [ visitor EXCEPT !.currentPackage = packageName,
                         !.result = addRelationship(addNode(@, packageNode), rel) ]

\* the backup of the context is taken, the context is set to the declaration,
\* and the statement that restores it is commented out
visitClassOrInterfaceDeclaration(node, kind, visitor) ==
    LET fileNode == visitor.fileNode
        name == node.name
        kindLower == IF kind = "JavaClass" THEN "javaclass" ELSE "javainterface"
        qualifiedName == IF visitor.currentPackage # ""
                         THEN visitor.currentPackage \o "." \o name ELSE name
        entityId == generateEntityId(kindLower, qualifiedName)
        classNode == AstNode(entityId, kind, name, fileNode.filePath, "Java",
                             node.startLine, FALSE, {"qualifiedName"}, "")
        relType == IF kind = "JavaClass" THEN "DEFINES_CLASS" ELSE "DEFINES_INTERFACE"
        relTypeLower == IF kind = "JavaClass" THEN "defines_class" ELSE "defines_interface"
        relEntityId == generateEntityId(relTypeLower, fileNode.entityId \o ":" \o entityId)
        rel == RelationshipInfo(relEntityId, relType, fileNode.entityId, entityId, "undefined")
    IN  IF name = "" THEN visitor
        ELSE [ visitor EXCEPT !.currentClassOrInterfaceId = entityId,
                              !.result = addRelationship(addNode(@, classNode), rel) ]

\* a method outside every context is skipped; otherwise it is the method of
\* the current context
visitMethodDeclaration(node, visitor) ==
    LET parentId == visitor.currentClassOrInterfaceId
        name == node.name
        methodEntityId == generateEntityId("javamethod", parentId \o "." \o name)
        methodNode == AstNode(methodEntityId, "JavaMethod", name, visitor.fileNode.filePath,
                              "Java", node.startLine, FALSE, {}, "") @@ [ parentId |-> parentId ]
        relEntityId == generateEntityId("has_method", parentId \o ":" \o methodEntityId)
        rel == RelationshipInfo(relEntityId, "HAS_METHOD", parentId, methodEntityId, "undefined")
    IN  IF parentId = "" \/ name = "" THEN visitor
        ELSE [ visitor EXCEPT !.result = addRelationship(addNode(@, methodNode), rel) ]

\* a field declaration with one declarator, whose name is node.name
visitFieldDeclaration(node, visitor) ==
    LET parentId == visitor.currentClassOrInterfaceId
        name == node.name
        fieldEntityId == generateEntityId("javafield", parentId \o "." \o name)
        fieldNode == AstNode(fieldEntityId, "JavaField", name, visitor.fileNode.filePath,
                             "Java", node.startLine, FALSE, {}, "") @@ [ parentId |-> parentId ]
        relEntityId == generateEntityId("has_field", parentId \o ":" \o fieldEntityId)
        rel == RelationshipInfo(relEntityId, "HAS_FIELD", parentId, fieldEntityId, "undefined")
    IN  IF parentId = "" \/ name = "" THEN visitor
        ELSE [ visitor EXCEPT !.result = addRelationship(addNode(@, fieldNode), rel) ]

visitEnumDeclaration(node, visitor) ==
    LET fileNode == visitor.fileNode
        name == node.name
        qualifiedName == IF visitor.currentPackage # ""
                         THEN visitor.currentPackage \o "." \o name ELSE name
        entityId == generateEntityId("javaenum", qualifiedName)
        enumNode == AstNode(entityId, "JavaEnum", name, fileNode.filePath, "Java",
                            node.startLine, FALSE, {"qualifiedName"}, "")
        relEntityId == generateEntityId("defines_enum", fileNode.entityId \o ":" \o entityId)
        rel == RelationshipInfo(relEntityId, "DEFINES_ENUM", fileNode.entityId, entityId, "undefined")
    IN  IF name = "" THEN visitor
        ELSE [ visitor EXCEPT !.result = addRelationship(addNode(@, enumNode), rel) ]

\* the switch on node.type (the trees hold no import and no constructor)
visitNode(node, visitor) ==
    CASE node.type = "package_declaration" -> visitPackageDeclaration(node, visitor)
      [] node.type = "class_declaration" -> visitClassOrInterfaceDeclaration(node, "JavaClass", visitor)
      [] node.type = "interface_declaration" -> visitClassOrInterfaceDeclaration(node, "JavaInterface", visitor)
      [] node.type = "enum_declaration" -> visitEnumDeclaration(node, visitor)
      [] node.type = "method_declaration" -> visitMethodDeclaration(node, visitor)
      [] node.type = "field_declaration" -> visitFieldDeclaration(node, visitor)
      [] OTHER -> visitor

\* visit: the node first, then its named children in order
RECURSIVE visit(_, _)
visit(node, visitor) ==
    LET RECURSIVE visitChildren(_, _)
        visitChildren(children, v) ==
            IF children = <<>> THEN v
            ELSE visitChildren(Tail(children), visit(Head(children), v))
    IN  visitChildren(node.namedChildren, visitNode(node, visitor))

\* JavaParser.parseFile: a new JavaAstVisitor visits tree.rootNode
JavaAstVisitor(javaFile) ==
    LET filepath == javaFile.path
        fileNode == AstNode(generateEntityId("file", filepath), "File", filepath, filepath,
                            "Java", 1, FALSE, {}, "")
        visitor == [ result |-> ParseResult(filepath, <<fileNode>>, <<>>), fileNode |-> fileNode,
                     currentPackage |-> "", currentClassOrInterfaceId |-> "" ]
    IN  visit(javaFile.rootNode, visitor).result

RECURSIVE visitIncludeOrDefine(_, _, _)
visitIncludeOrDefine(includes, fileNode, result) ==
    IF includes = <<>> THEN result
    ELSE LET directive == Head(includes)
             \* the text of the path node, with its delimiters; properties.includePath
             \* is that text without them
             name == IF directive.isSystemInclude
                     THEN "<" \o directive.includePath \o ">"
                     ELSE "\"" \o directive.includePath \o "\""
             entityId == generateEntityId("includedirective",
                             fileNode.filePath \o ":" \o name \o ":" \o ToString(directive.startLine))
             directiveNode == AstNode(entityId, "IncludeDirective", name, fileNode.filePath,
                                      fileNode.language, directive.startLine, FALSE,
                                      IF directive.isSystemInclude THEN {"isSystemInclude"} ELSE {},
                                      directive.includePath)
             relEntityId == generateEntityId("includes", fileNode.entityId \o ":" \o entityId)
             rel == RelationshipInfo(relEntityId, "INCLUDES", fileNode.entityId, entityId, "undefined")
         IN  visitIncludeOrDefine(Tail(includes), fileNode,
                                  addRelationship(addNode(result, directiveNode), rel))

\* CCppAstVisitor over one translation unit
CCppAstVisitor(cppFile) ==
    LET filepath == cppFile.path
        fileNode == AstNode(generateEntityId("file", filepath), "File", filepath, filepath,
                            cppFile.language, 1, FALSE, {}, "")
    IN  visitIncludeOrDefine(cppFile.includes, fileNode, ParseResult(filepath, <<fileNode>>, <<>>))

\* stdout of python_parser.py for a module with one function that calls print
runPythonScript(filePath) ==
    LET moduleId == generateEntityId("pythonmodule", filePath)
        functionId == generateEntityId("pythonfunction", filePath \o ":greet")
        printId == generateEntityId("pythonfunction", "print")
    IN  ParseResult(filePath,
          << AstNode(moduleId, "PythonModule", filePath, filePath, "Python", 1, FALSE, {}, ""),
             AstNode(functionId, "PythonFunction", "greet", filePath, "Python", 1, FALSE, {}, "") >>,
          << RelationshipInfo(generateEntityId("defines_function", moduleId \o ":" \o functionId),
                              "DEFINES_FUNCTION", moduleId, functionId, "undefined"),
             RelationshipInfo(generateEntityId("python_calls", functionId \o ":" \o printId),
                              "PYTHON_CALLS", functionId, printId, "true") >>)

\* FileInfo
FileInfo(path, extension) == [ path |-> path, extension |-> extension ]

\* what a language parser's parseFile writes to its temp file on success
parseFile(file) ==
    CASE file.extension = ".py" -> runPythonScript(file.path)
      [] file.extension \in {".c", ".cpp", ".h", ".hpp"} ->
            CCppAstVisitor(CHOOSE f \in { CppFileMain } : f.path = file.path)
      [] file.extension = ".java" ->
            JavaAstVisitor(CHOOSE f \in { JavaFileX, JavaFileY, JavaFileOuter } : f.path = file.path)

\* config.supportedExtensions
supportedExtensions ==
    { ".ts", ".tsx", ".js", ".jsx", ".py", ".c", ".h", ".cpp", ".hpp", ".cc", ".hh",
      ".java", ".cs", ".go", ".sql" }

\* the branch of the switch of Parser.parseFiles a file takes
Dispatch(file) ==
    CASE file.extension = ".py" -> "python"
      [] file.extension \in {".c", ".cpp", ".h", ".hpp"} -> "cpp"
      [] file.extension = ".java" -> "java"
      [] file.extension = ".go" -> "go"
      [] file.extension = ".cs" -> "csharp"
      [] file.extension \in {".ts", ".tsx", ".js", ".jsx", ".mjs", ".cjs"} -> "ts"
      [] OTHER -> "skip"

(***************************************************************************)
(* Parser.collectResults: merge of the per-file results, keyed by          *)
(* entityId.  jsonResults are the temp files in the order readdir listed   *)
(* them; tsEntries are the entries of Parser.tsResults.                    *)
(***************************************************************************)
\* fileNodeMap: the nodes of one result, deduplicated
fileNodeMap(result) == MapSetAll(<<>>, result.nodes)

\* nodeMap.set for the nodes of each result in turn, relationshipMap.set for
\* its relationships
collectResults(jsonResults, tsEntries) ==
    LET results == jsonResults \o tsEntries
        Relationships(result) == result.relationships
    IN  [ allNodes |-> MapSetAll(<<>>, Flatten([ k \in 1..Len(results) |-> fileNodeMap(results[k]) ])),
          allRelationships |-> MapSetAll(<<>>, Flatten([ k \in 1..Len(results) |-> Relationships(results[k]) ])) ]

(***************************************************************************)
(* Pass 2.                                                                 *)
(***************************************************************************)
Null == [ entityId |-> "null" ]

IndexGet(index, id) == IF MapHas(index, id) THEN MapGet(index, id) ELSE Null

TargetDeclarationInfo(name, kind, filePath, entityId) ==
    [ name |-> name, kind |-> kind, filePath |-> filePath, entityId |-> entityId ]

\* analyzer-utils.getTargetDeclarationInfo, on the first declaration of the
\* (de-aliased) symbol of an expression
getTargetDeclarationInfo(declaration, currentFilePath) ==
    LET resolvedFilePath == resolveImportPath(currentFilePath, declaration.filePath)
        name == declaration.name
        dk == declaration.declKind
        kind == CASE dk \in {"FunctionDeclaration", "ArrowFunctionVariable"} -> "Function"
                  [] dk \in {"MethodDeclaration", "MethodSignature"} -> "Method"
                  [] dk = "ClassDeclaration" -> "Class"
                  [] dk = "InterfaceDeclaration" -> "Interface"
                  [] dk = "VariableDeclaration" -> "Variable"
                  [] dk = "Parameter" -> "Parameter"
                  [] OTHER -> "unknown"
        kindLower == CASE kind = "Function" -> "function"
                       [] kind = "Method" -> "method"
                       [] kind = "Class" -> "class"
                       [] kind = "Interface" -> "interface"
                       [] kind = "Variable" -> "variable"
                       [] kind = "Parameter" -> "parameter"
                       [] OTHER -> "unknown"
        parentQualifiedName == resolvedFilePath \o ":" \o declaration.parentName \o ":"
                                   \o ToString(declaration.parentStartLine)
        baseQualifiedName ==
            CASE kind = "Method" -> resolvedFilePath \o ":" \o declaration.parentName \o "." \o name
              [] kind = "Parameter" -> parentQualifiedName \o ":" \o name
              [] OTHER -> resolvedFilePath \o ":" \o name
        qualifiedNameForId ==
            IF kind = "Function"
            THEN baseQualifiedName \o ":" \o ToString(declaration.startLine)
            ELSE baseQualifiedName
    IN  IF dk = "none" \/ kind = "unknown" THEN Null
        ELSE TargetDeclarationInfo(name, kind, resolvedFilePath,
                                   generateEntityId(kindLower, qualifiedNameForId))

\* context.addRelationship of RelationshipResolver.resolveRelationships over
\* the relationships the resolvers hand it, in order: the first relationship
\* of an entityId is kept
resolverAddRelationships(emitted) ==
    LET indices == [ i \in 1..Len(emitted) |-> i ]
        IsFirst(i) == \A j \in 1..(i - 1) : emitted[j].entityId # emitted[i].entityId
        firsts == SelectSeq(indices, IsFirst)
    IN  [ n \in 1..Len(firsts) |-> emitted[firsts[n]] ]

findNodeByFilePath(filePath, index) ==
    LET fileEntityId == generateEntityId("file", filePath)
    IN  IF MapHas(index, fileEntityId) THEN MapGet(index, fileEntityId)
        ELSE IndexGet(index, generateEntityId("pythonmodule", filePath))

BoolString(b) == IF b THEN "true" ELSE "false"

\* the named-import loop of resolveTsModules
resolveNamedImports(namedImports, importAstNode, targetFileNode, index) ==
    LET Resolve(importName) ==
            LET asFunction == IndexGet(index, generateEntityId("function", targetFileNode.filePath \o ":" \o importName))
                asClass == IndexGet(index, generateEntityId("class", targetFileNode.filePath \o ":" \o importName))
                asInterface == IndexGet(index, generateEntityId("interface", targetFileNode.filePath \o ":" \o importName))
                asVariable == IndexGet(index, generateEntityId("variable", targetFileNode.filePath \o ":" \o importName))
                targetNode == IF asFunction # Null THEN asFunction
                              ELSE IF asClass # Null THEN asClass
                              ELSE IF asInterface # Null THEN asInterface
                              ELSE asVariable
                resolvesRelEntityId == generateEntityId("resolves_import",
                                           importAstNode.entityId \o ":" \o targetNode.entityId)
            IN  IF targetNode # Null
                   /\ ("isExported" \in targetNode.properties \/ "isDefaultExport" \in targetNode.properties)
                THEN << RelationshipInfo(resolvesRelEntityId, "RESOLVES_IMPORT",
                                         importAstNode.entityId, targetNode.entityId, "undefined")
                          @@ [ targetSymbol |-> importName ] >>
                ELSE <<>>
    IN  Flatten([ k \in 1..Len(namedImports) |-> Resolve(namedImports[k]) ])

\* the default-import and namespace-import steps of resolveTsModules; the
\* properties of a RESOLVES_IMPORT edge (targetSymbol, isDefaultImport,
\* isNamespaceImport) are fields of the record
resolveDefaultAndNamespaceImport(impDecl, importAstNode, targetFileNode, index) ==
    LET defaults == { i \in 1..Len(index) :
                        /\ index[i].filePath = targetFileNode.filePath
                        /\ "isDefaultExport" \in index[i].properties }
        targetNode == index[CHOOSE i \in defaults : \A j \in defaults : i <= j]
        defaultRel == RelationshipInfo(
                          generateEntityId("resolves_import",
                              importAstNode.entityId \o ":" \o targetNode.entityId \o ":default"),
                          "RESOLVES_IMPORT", importAstNode.entityId, targetNode.entityId, "undefined")
                        @@ [ isDefaultImport |-> TRUE ]
        namespaceRel == RelationshipInfo(
                          generateEntityId("resolves_import",
                              importAstNode.entityId \o ":" \o targetFileNode.entityId \o ":namespace"),
                          "RESOLVES_IMPORT", importAstNode.entityId, targetFileNode.entityId, "undefined")
                          @@ [ isNamespaceImport |-> TRUE ]
    IN  (IF impDecl.defaultImport # "" /\ defaults # {} THEN << defaultRel >> ELSE <<>>)
          \o (IF impDecl.namespaceImport # "" THEN << namespaceRel >> ELSE <<>>)

\* the source files of the model have no export declarations or assignments
resolveTsModules(sourceFile, fileNode, index) ==
    LET ResolveImport(impDecl) ==
            LET moduleSpecifier == impDecl.moduleSpecifier
                resolvedImportPath == IF impDecl.resolvedSourceFile # ""
                                      THEN impDecl.resolvedSourceFile
                                      ELSE resolveImportPath(fileNode.filePath, moduleSpecifier)
                targetFileNode == findNodeByFilePath(resolvedImportPath, index)
                isTargetPlaceholder == (targetFileNode = Null)
                targetFileEntityId == IF targetFileNode # Null THEN targetFileNode.entityId
                                      ELSE generateEntityId("file", resolvedImportPath)
                importRelEntityId == generateEntityId("imports", fileNode.entityId \o ":" \o targetFileEntityId)
                importRel == RelationshipInfo(importRelEntityId, "IMPORTS", fileNode.entityId,
                                              targetFileEntityId, BoolString(isTargetPlaceholder))
                importAstNodeEntityId == generateEntityId("import",
                    fileNode.filePath \o ":" \o moduleSpecifier \o ":" \o ToString(impDecl.startLine))
                importAstNode == IndexGet(index, importAstNodeEntityId)
            IN  << importRel >> \o
                  (IF importAstNode = Null \/ targetFileNode = Null THEN <<>>
                   ELSE resolveNamedImports(impDecl.namedImports, importAstNode, targetFileNode, index)
                          \o resolveDefaultAndNamespaceImport(impDecl, importAstNode, targetFileNode, index))
    IN  Flatten([ k \in 1..Len(sourceFile.imports) |-> ResolveImport(sourceFile.imports[k]) ])

\* properties.isPlaceholder of a Pass-2 edge: !targetNode
isPlaceholder_AlwaysFalse(targetNode) == "false"

isPlaceholder(targetNode) == BoolString(targetNode = Null)

\* the edges of resolveTsInheritance or analyzeTsBodyInteractions to the
\* declarations a list of expressions resolves to; none for an expression
\* that resolves to nothing
edgesToDeclarations(relKind, type, sourceNode, declarations, currentFilePath, index) ==
    LET Edge(declaration) ==
            LET targetInfo == getTargetDeclarationInfo(declaration, currentFilePath)
                targetNode == IndexGet(index, targetInfo.entityId)
                relEntityId == generateEntityId(relKind, sourceNode.entityId \o ":" \o targetInfo.entityId)
            IN  IF targetInfo = Null THEN <<>>
                ELSE << RelationshipInfo(relEntityId, type, sourceNode.entityId, targetInfo.entityId,
                                         isPlaceholder(targetNode)) >>
    IN  Flatten([ k \in 1..Len(declarations) |-> Edge(declarations[k]) ])

resolveTsInheritance(sourceFile, fileNode, index) ==
    LET OfClass(declaration) ==
            LET classNode == IndexGet(index, generateEntityId("class", fileNode.filePath \o ":" \o declaration.name))
            IN  IF classNode = Null THEN <<>>
                ELSE edgesToDeclarations("extends", "EXTENDS", classNode, << declaration.extends >>,
                                         fileNode.filePath, index)
                       \o edgesToDeclarations("implements", "IMPLEMENTS", classNode, declaration.implements,
                                              fileNode.filePath, index)
        OfInterface(declaration) ==
            LET interfaceNode == IndexGet(index, generateEntityId("interface", fileNode.filePath \o ":" \o declaration.name))
            IN  IF interfaceNode = Null THEN <<>>
                ELSE edgesToDeclarations("extends", "EXTENDS", interfaceNode, declaration.extends,
                                         fileNode.filePath, index)
    IN  Flatten([ k \in 1..Len(sourceFile.classes) |-> OfClass(sourceFile.classes[k]) ])
          \o Flatten([ k \in 1..Len(sourceFile.interfaces) |-> OfInterface(sourceFile.interfaces[k]) ])

analyzeTsBodyInteractions(body, sourceNode, index) ==
    LET HandlesError(catchClause) ==
            LET targetEntityId ==
                    IF catchClause.binding # ""
                    THEN generateEntityId("parameter", sourceNode.entityId \o ":catch:"
                             \o catchClause.binding \o ":" \o ToString(catchClause.line))
                    ELSE generateEntityId("error_handler", sourceNode.entityId \o ":handler:"
                             \o ToString(catchClause.line))
                relEntityId == generateEntityId("handles_error", sourceNode.entityId \o ":" \o targetEntityId)
            IN  << RelationshipInfo(relEntityId, "HANDLES_ERROR", sourceNode.entityId,
                                    targetEntityId, "undefined") >>
    IN  edgesToDeclarations("calls", "CALLS", sourceNode,
                            [ i \in 1..Len(body.calls) |-> body.calls[i].target ],
                            sourceNode.filePath, index)
          \o edgesToDeclarations("mutates_state", "MUTATES_STATE", sourceNode, body.assignments,
                                 sourceNode.filePath, index)
          \o Flatten([ k \in 1..Len(body.catches) |-> HandlesError(body.catches[k]) ])

\* one function or method body of resolveTsCrossFileInteractions
analyzeDeclarationBody(declaration, body, fileNode, index) ==
    LET sourceTargetInfo == getTargetDeclarationInfo(declaration, fileNode.filePath)
        sourceNode == IndexGet(index, sourceTargetInfo.entityId)
    IN  IF sourceTargetInfo = Null \/ sourceNode = Null THEN <<>>
        ELSE analyzeTsBodyInteractions(body, sourceNode, index)

resolveTsCrossFileInteractions(sourceFile, fileNode, index) ==
    LET \* sourceFile.getFunctions(): function declarations only
        OfFunction(funcDecl) ==
            IF funcDecl.form # "FunctionDeclaration" THEN <<>>
            ELSE analyzeDeclarationBody(
                     Decl("FunctionDeclaration", fileNode.filePath, funcDecl.name, funcDecl.startLine, "", 0),
                     funcDecl, fileNode, index)
        OfClass(classDecl) ==
            LET OfMethod(methodDecl) ==
                    analyzeDeclarationBody(
                        Decl("MethodDeclaration", fileNode.filePath, methodDecl.name,
                             methodDecl.startLine, classDecl.name, classDecl.startLine),
                        methodDecl, fileNode, index)
            IN  Flatten([ k \in 1..Len(classDecl.methods) |-> OfMethod(classDecl.methods[k]) ])
    IN  Flatten([ k \in 1..Len(sourceFile.functions) |-> OfFunction(sourceFile.functions[k]) ])
          \o Flatten([ k \in 1..Len(sourceFile.classes) |-> OfClass(sourceFile.classes[k]) ])

\* the source files of the model contain no JSX elements
resolveTsComponentUsage(sourceFile, fileNode, index) == <<>>

resolveCIncludes(fileNode, index) ==
    LET IsDirectiveOfFile(node) == node.kind = "IncludeDirective" /\ node.filePath = fileNode.filePath
        Include(directiveNode) ==
            LET includePath == directiveNode.includePath
                targetFileEntityId == generateEntityId("file", includePath)
                relEntityId == generateEntityId("includes", fileNode.entityId \o ":" \o targetFileEntityId)
            IN  IF includePath = "" THEN <<>>
                ELSE << RelationshipInfo(relEntityId, "INCLUDES", fileNode.entityId,
                                         targetFileEntityId, "true") >>
    IN  IF fileNode.language \notin {"C", "C++"} THEN <<>>
        ELSE LET includeDirectives == SelectSeq(index, IsDirectiveOfFile)
             IN  Flatten([ k \in 1..Len(includeDirectives) |-> Include(includeDirectives[k]) ])

\* new RelationshipResolver(allNodes, pass1Relationships).nodeIndex
buildNodeIndex(allNodes) == MapSetAll(<<>>, allNodes)

\* RelationshipResolver.resolveRelationships; project.getSourceFile finds the
\* files that were added to the ts-morph project
resolveRelationships(index) ==
    LET IsFileNode(node) == node.kind \in {"File", "PythonModule"}
        OfFile(fileNode) ==
            LET hasSourceFile == HasTsSourceFile(fileNode.filePath)
                sourceFile == TsSourceFile(fileNode.filePath)
            IN  (IF fileNode.language \in {"TypeScript", "JavaScript"} /\ hasSourceFile
                 THEN resolveTsModules(sourceFile, fileNode, index)
                        \o resolveTsInheritance(sourceFile, fileNode, index)
                        \o resolveTsCrossFileInteractions(sourceFile, fileNode, index)
                        \o resolveTsComponentUsage(sourceFile, fileNode, index)
                 ELSE <<>>)
                \o (IF fileNode.language \in {"C", "C++"} /\ hasSourceFile
                    THEN resolveCIncludes(fileNode, index)
                    ELSE <<>>)
        fileNodes == SelectSeq(index, IsFileNode)
    IN  resolverAddRelationships(Flatten([ k \in 1..Len(fileNodes) |-> OfFile(fileNodes[k]) ]))

\* whether resolveRelationships throws: its loop over the file nodes and the
\* resolvers it calls have no try/catch, so an exception of a resolver on one
\* file leaves the loop and the method
resolveRelationshipsThrows(index, throwing) ==
    \E k \in 1..Len(index) :
        /\ index[k].kind \in {"File", "PythonModule"}
        /\ index[k].language \in {"TypeScript", "JavaScript"}
        /\ HasTsSourceFile(index[k].filePath)
        /\ index[k].filePath \in throwing

\* AnalyzerService.analyze: Pass-1 and Pass-2 relationships, deduplicated
uniqueRelationships(pass1Rels, pass2Rels) == MapSetAll(<<>>, pass1Rels \o pass2Rels)

(***************************************************************************)
(* The graph store and StorageManager.                                     *)
(***************************************************************************)
\* the promise of analyze(): pending, resolved, or rejected with a ParserError
Outcome(name) == [ name |-> name, code |-> "" ]

\* errors.ts: new Neo4jError(message, { originalError, code })
Neo4jError(code) == [ name |-> "Neo4jError", code |-> code ]

\* Neo4jClient.runTransaction: a failed transaction is rethrown as a
\* Neo4jError with the driver error's code
runTransactionError(error) == Neo4jError(error.code)

\* the catch blocks of saveNodesBatch and saveRelationshipsBatch
saveBatchError_DropCode(error) == Neo4jError("undefined")

saveBatchError(error) == Neo4jError(error.code)

\* the slices of saveNodesBatch / saveRelationshipsBatch
RECURSIVE Batches(_, _)
Batches(items, size) ==
    IF items = <<>> THEN <<>>
    ELSE << SubSeq(items, 1, Min(size, Len(items))) >>
             \o Batches(SubSeq(items, Min(size, Len(items)) + 1, Len(items)), size)

\* relationshipsByType of AnalyzerService.analyze: the types in order of first
\* occurrence
RECURSIVE TypeOrder(_, _)
TypeOrder(rels, seen) ==
    IF rels = <<>> THEN seen
    ELSE TypeOrder(Tail(rels),
                   IF Head(rels).type \in Range(seen) THEN seen ELSE Append(seen, Head(rels).type))

relationshipsOfType(rels, type) ==
    LET HasType(rel) == rel.type = type
    IN  SelectSeq(rels, HasType)

Batch(kind, type, items) == [ kind |-> kind, type |-> type, items |-> items ]

\* the write phase with the relationship batches submitted first
WritePlan_EdgesFirst(nodes, rels) ==
    LET types == TypeOrder(rels, <<>>)
        nodeBatches == Batches(nodes, storageBatchSize)
        relBatches(type) == Batches(relationshipsOfType(rels, type), storageBatchSize)
    IN  Flatten([ t \in 1..Len(types) |->
                    [ i \in 1..Len(relBatches(types[t])) |->
                        Batch("relationships", types[t], relBatches(types[t])[i]) ] ])
          \o [ i \in 1..Len(nodeBatches) |-> Batch("nodes", "", nodeBatches[i]) ]

\* the write phase with the File nodes taken out of the list handed to
\* saveNodesBatch
WritePlan_WithoutFileNodes(nodes, rels) ==
    LET types == TypeOrder(rels, <<>>)
        nodeBatches == Batches(SelectSeq(nodes, LAMBDA node : node.kind # "File"), storageBatchSize)
        relBatches(type) == Batches(relationshipsOfType(rels, type), storageBatchSize)
    IN  [ i \in 1..Len(nodeBatches) |-> Batch("nodes", "", nodeBatches[i]) ]
          \o Flatten([ t \in 1..Len(types) |->
                        [ i \in 1..Len(relBatches(types[t])) |->
                            Batch("relationships", types[t], relBatches(types[t])[i]) ] ])

\* every transaction of one write phase, in submission order: saveNodesBatch,
\* then saveRelationshipsBatch per type
WritePlan(nodes, rels) ==
    LET types == TypeOrder(rels, <<>>)
        nodeBatches == Batches(nodes, storageBatchSize)
        relBatches(type) == Batches(relationshipsOfType(rels, type), storageBatchSize)
    IN  [ i \in 1..Len(nodeBatches) |-> Batch("nodes", "", nodeBatches[i]) ]
          \o Flatten([ t \in 1..Len(types) |->
                        [ i \in 1..Len(relBatches(types[t])) |->
                            Batch("relationships", types[t], relBatches(types[t])[i]) ] ])

\* the graph: the bag of its nodes and the bag of its relationships
EmptyStore == [ nodes |-> EmptyBag, rels |-> EmptyBag ]

\* a node of the graph: its entityId and the set of its labels
StoredNode(entityId, labels) == [ entityId |-> entityId, labels |-> labels ]

\* NODE_LABELS, the closed vocabulary of node labels
NODE_LABELS ==
    { "File", "Directory", "Class", "Interface", "Function", "Method",
      "Variable", "Parameter", "TypeAlias", "Import", "Export",
      "Component", "JSXElement", "JSXAttribute", "TailwindClass",
      "PythonModule", "PythonFunction", "PythonClass", "PythonMethod", "PythonParameter",
      "PythonVariable", "CFunction", "CppClass", "CppMethod", "IncludeDirective",
      "MacroDefinition",
      "JavaClass", "JavaInterface", "JavaMethod", "JavaField", "PackageDeclaration",
      "ImportDeclaration",
      "CSharpClass", "CSharpInterface", "CSharpStruct", "CSharpMethod", "Property", "Field",
      "NamespaceDeclaration", "UsingDirective",
      "GoFunction", "GoMethod", "GoStruct", "GoInterface", "PackageClause", "ImportSpec",
      "SQLSchema", "SQLTable", "SQLView", "SQLColumn", "SQLSelectStatement",
      "SQLInsertStatement", "SQLUpdateStatement", "SQLDeleteStatement", "SQLFunction",
      "SQLProcedure" }

\* the effect on a node's labels of the two clauses generateNodeLabelCypher
\* builds: REMOVE n:`l1`:`l2`... over NODE_LABELS, then for each label of
\* NODE_LABELS a FOREACH that sets it when kind is that label
generateNodeLabelCypher(labels, kind) ==
    (labels \ NODE_LABELS) \cup { label \in NODE_LABELS : kind = label }

\* MERGE (n { entityId: nodeData.entityId }) SET n = nodeData.properties and
\* the label clauses: the nodes of that entityId are updated, or one is
\* created
mergeNode_Create(storeNodes, node) ==
    storeNodes (+) SetToBag({ StoredNode(node.entityId, generateNodeLabelCypher({}, node.kind)) })

mergeNode(storeNodes, node) ==
    LET matched == { n \in BagToSet(storeNodes) : n.entityId = node.entityId }
        others == [ n \in BagToSet(storeNodes) \ matched |-> storeNodes[n] ]
        relabel(n) == StoredNode(n.entityId, generateNodeLabelCypher(n.labels, node.kind))
    IN  IF matched = {}
        THEN storeNodes (+) SetToBag({ StoredNode(node.entityId, generateNodeLabelCypher({}, node.kind)) })
        ELSE others (+) BagOfAll(relabel, [ n \in matched |-> storeNodes[n] ])

RECURSIVE mergeNodes(_, _)
mergeNodes(storeNodes, batch) ==
    IF batch = <<>> THEN storeNodes
    ELSE mergeNodes(mergeNode(storeNodes, Head(batch)), Tail(batch))

\* MERGE (source { entityId: relData.sourceId }) and MERGE (target { entityId:
\* relData.targetId }): an endpoint that is not in the store is created,
\* without a label
mergeEndpoint_MatchOnly(storeNodes, id) == storeNodes

mergeEndpoint(storeNodes, id) ==
    IF \E n \in BagToSet(storeNodes) : n.entityId = id THEN storeNodes
    ELSE storeNodes (+) SetToBag({ StoredNode(id, {}) })

StoredRel(rel) ==
    [ entityId |-> rel.entityId, type |-> rel.type, sourceId |-> rel.sourceId, targetId |-> rel.targetId ]

\* MERGE (source)-[r:type { entityId: relData.entityId }]->(target)
mergeRelationship(storeRels, rel) ==
    IF BagIn(StoredRel(rel), storeRels) THEN storeRels
    ELSE storeRels (+) SetToBag({ StoredRel(rel) })

RECURSIVE mergeRelationships(_, _)
mergeRelationships(st, batch) ==
    IF batch = <<>> THEN st
    ELSE LET rel == Head(batch)
         IN  mergeRelationships(
                 [ nodes |-> mergeEndpoint(mergeEndpoint(st.nodes, rel.sourceId), rel.targetId),
                   rels |-> mergeRelationship(st.rels, rel) ],
                 Tail(batch))

\* the effect of one committed transaction
applyBatch(st, batch) ==
    IF batch.kind = "nodes"
    THEN [ st EXCEPT !.nodes = mergeNodes(@, batch.items) ]
    ELSE mergeRelationships(st, batch.items)

(***************************************************************************)
(* FileScanner.  A directory is given as readdir presents it: its entries  *)
(* in listing order, each a file or a directory; readable is whether       *)
(* readdir of the directory succeeds.  nameSuffix is the part of a file    *)
(* name from its first dot, extension what path.extname returns.           *)
(***************************************************************************)
DirentFile(name, nameSuffix, extension) ==
    [ type |-> "file", name |-> name, nameSuffix |-> nameSuffix, extension |-> extension ]

DirentDirectory(name, readable, entries) ==
    [ type |-> "directory", name |-> name, readable |-> readable, entries |-> entries ]

\* config.ignorePatterns (the patterns the trees below can meet): a glob is
\* **/<name>/** or **/*<suffix>
ignorePatterns ==
    LET DirectoryPattern(name) == [ glob |-> "directory", name |-> name ]
        SuffixPattern(suffix) == [ glob |-> "suffix", suffix |-> suffix ]
    IN  { DirectoryPattern("node_modules"), DirectoryPattern("dist"), DirectoryPattern("build"),
          SuffixPattern(".test.ts"), SuffixPattern(".spec.ts"), SuffixPattern(".log") }

\* FileScanner.isIgnored of the path of an entry whose directory is not
\* ignored: micromatch.isMatch against the combined patterns
isIgnored(entry, combinedIgnorePatterns) ==
    \E pattern \in combinedIgnorePatterns :
        \/ pattern.glob = "directory" /\ entry.type = "directory" /\ entry.name = pattern.name
        \/ pattern.glob = "suffix" /\ entry.type = "file" /\ entry.nameSuffix = pattern.suffix

\* FileScanner.scanDirectoryRecursive: the files found under a directory
RECURSIVE scanDirectoryRecursive(_, _, _, _)
scanDirectoryRecursive(currentPath, directory, extensions, combinedIgnorePatterns) ==
    LET ScanEntry(entry) ==
            LET entryPath == currentPath \o "/" \o entry.name
            IN  IF isIgnored(entry, combinedIgnorePatterns) THEN <<>>
                ELSE IF entry.type = "directory"
                     THEN scanDirectoryRecursive(entryPath, entry, extensions, combinedIgnorePatterns)
                     ELSE IF entry.extension \in extensions
                          THEN << FileInfo(entryPath, entry.extension) >>
                          ELSE <<>>
    IN  IF isIgnored(directory, combinedIgnorePatterns) THEN <<>>
        ELSE IF ~directory.readable THEN <<>>
        ELSE Flatten([ k \in 1..Len(directory.entries) |-> ScanEntry(directory.entries[k]) ])

\* FileScanner.scan of the target directory /w: the catch block is reached
\* only if scanDirectoryRecursive throws, and it catches every readdir error
scan(directory, extensions, combinedIgnorePatterns) ==
    scanDirectoryRecursive("/w", directory, extensions, combinedIgnorePatterns)

\* the paths of the files under a directory that an ignore pattern matches,
\* themselves or through one of their directories
RECURSIVE ignoredPaths(_, _, _, _)
ignoredPaths(currentPath, directory, inIgnored, combinedIgnorePatterns) ==
    LET OfEntry(entry) ==
            LET entryPath == currentPath \o "/" \o entry.name
                ignored == inIgnored \/ isIgnored(entry, combinedIgnorePatterns)
            IN  IF entry.type = "directory"
                THEN ignoredPaths(entryPath, entry, ignored, combinedIgnorePatterns)
                ELSE IF ignored THEN { entryPath } ELSE {}
    IN  UNION { OfEntry(directory.entries[k]) : k \in 1..Len(directory.entries) }

(***************************************************************************)
(* The analyzed trees: the target directory, the files whose content makes *)
(* their parser throw (broken), and the files on which a ts-morph call of  *)
(* a Pass-2 resolver throws (throwing).                                    *)
(***************************************************************************)
Tree(directory, broken) == [ directory |-> directory, broken |-> broken, throwing |-> {} ]

DirectoryTs ==
    DirentDirectory("w", TRUE,
        << DirentFile("a.ts", ".ts", ".ts"), DirentFile("b.ts", ".ts", ".ts"),
           DirentFile("a.test.ts", ".test.ts", ".ts"), DirentFile("README.md", ".md", ".md"),
           DirentFile("q.sql", ".sql", ".sql"), DirentFile("main.cpp", ".cpp", ".cpp"),
           DirentDirectory("node_modules", TRUE,
               << DirentDirectory("x", TRUE, << DirentFile("index.d.ts", ".d.ts", ".ts") >>) >>) >>)

DirectoryPoly ==
    DirentDirectory("w", TRUE,
        << DirentDirectory("x", TRUE, << DirentFile("Calc.java", ".java", ".java") >>),
           DirentDirectory("y", TRUE, << DirentFile("Calc.java", ".java", ".java") >>),
           DirentDirectory("z", FALSE, << DirentFile("Lost.java", ".java", ".java") >>),
           DirentFile("m.py", ".py", ".py") >>)

\* the trees: an empty directory, a directory that readdir cannot read, a
\* directory holding one SQL file, a directory holding Outer.java, and the two
\* directories above, with and without a file that makes a parser or a
\* resolver throw
Trees ==
    { Tree(DirentDirectory("w", TRUE, <<>>), {}),
      Tree(DirentDirectory("w", FALSE, << DirentFile("a.ts", ".ts", ".ts") >>), {}),
      Tree(DirentDirectory("w", TRUE, << DirentFile("q.sql", ".sql", ".sql") >>), {}),
      Tree(DirentDirectory("w", TRUE, << DirentFile("Outer.java", ".java", ".java") >>), {}),
      Tree(DirectoryTs, {}), Tree(DirectoryTs, {PathB}), Tree(DirectoryTs, {PathA}),
      [ Tree(DirectoryTs, {}) EXCEPT !.throwing = {PathA} ],
      [ Tree(DirectoryTs, {}) EXCEPT !.throwing = {PathB} ],
      Tree(DirectoryPoly, {}), Tree(DirectoryPoly, {"/w/m.py"}), Tree(DirectoryPoly, {"/w/x/Calc.java"}) }

FilePaths(fileList) == { fileList[i].path : i \in 1..Len(fileList) }

FileAt(fileList, path) == fileList[CHOOSE i \in 1..Len(fileList) : fileList[i].path = path]

\* Pass 1 of each file, as its parser computes it when it succeeds
Pass1Results ==
    [ file \in { f \in Range(scan(DirectoryTs, supportedExtensions, ignorePatterns))
                            \cup Range(scan(DirectoryPoly, supportedExtensions, ignorePatterns))
                            \cup { FileInfo("/w/Outer.java", ".java") } :
                    Dispatch(f) # "skip" } |->
        IF Dispatch(file) = "ts" THEN parseTsSourceFile(TsSourceFile(file.path)) ELSE parseFile(file) ]

Pass1Result(file) == Pass1Results[file]

\* Parser._parseTsProjectFiles over the target files, in project order: a
\* file whose parsers throw is logged and gets no entry in tsResults
RECURSIVE parseTsProjectFiles(_, _)
parseTsProjectFiles(targetFiles, broken) ==
    IF targetFiles = <<>> THEN <<>>
    ELSE IF Dispatch(Head(targetFiles)) = "ts" /\ Head(targetFiles).path \notin broken
         THEN << Pass1Result(Head(targetFiles)) >>
                  \o parseTsProjectFiles(Tail(targetFiles), broken)
         ELSE parseTsProjectFiles(Tail(targetFiles), broken)

\* parsePromise.catch(err => null) of Parser.parseFiles
catchParseError_Rethrow(err) == "rejected"

catchParseError(err) == "null"

\* await Promise.all(parsePromises): every promise has settled
allSettled_NoWait(states, fileList) == TRUE

allSettled(states, fileList) == \A p \in FilePaths(fileList) : states[p] # "pending"

(***************************************************************************)
(* The analyze command of the CLI (registerAnalyzeCommand) and the Neo4j   *)
(* clients it and the AnalyzerService construct.                           *)
(***************************************************************************)
undefined == "undefined"

\* the connection settings of config, with no environment variable set
config ==
    [ neo4jUrl |-> "bolt://localhost:7687", neo4jUser |-> "neo4j",
      neo4jPassword |-> "password", neo4jDatabase |-> "codegraph" ]

\* new Neo4jClient(configOverride): its neo4jConfig
Neo4jClient(configOverride) ==
    [ uri |-> IF configOverride.uri # undefined THEN configOverride.uri ELSE config.neo4jUrl,
      username |-> IF configOverride.username # undefined THEN configOverride.username
                   ELSE config.neo4jUser,
      password |-> IF configOverride.password # undefined THEN configOverride.password
                   ELSE config.neo4jPassword,
      database |-> IF configOverride.database # undefined THEN configOverride.database
                   ELSE config.neo4jDatabase ]

\* no client constructed yet
NoClient ==
    [ uri |-> undefined, username |-> undefined, password |-> undefined, database |-> undefined ]

\* the Neo4j database a client's sessions run against
DatabaseOf(client) == << client.uri, client.database >>

Databases ==
    { << uri, database >> : uri \in { config.neo4jUrl, "bolt://graph:7687" },
                            database \in { config.neo4jDatabase, "other" } }

\* AnalyzeOptions; extensions is the comma-separated list split at its commas,
\* each item with whether it starts with a dot
AnalyzeOptions(extensions, ignore, updateSchema, resetDb, neo4jUrl, neo4jDatabase) ==
    [ extensions |-> extensions, ignore |-> ignore, updateSchema |-> updateSchema,
      resetDb |-> resetDb, neo4jUrl |-> neo4jUrl, neo4jUser |-> undefined,
      neo4jPassword |-> undefined, neo4jDatabase |-> neo4jDatabase ]

NoOptions == AnalyzeOptions(<<>>, {}, FALSE, FALSE, undefined, undefined)


\* finalOptions of the action callback
FinalOptions(opts) ==
    [ opts EXCEPT
        !.extensions = IF opts.extensions # <<>>
                       THEN { IF ext.startsWithDot THEN ext.text ELSE "." \o ext.text :
                                ext \in Range(opts.extensions) }
                       ELSE supportedExtensions,
        !.ignore = ignorePatterns \cup opts.ignore ]

(***************************************************************************)
(* The run_analyzer tool of the MCP server.  The repository holds two      *)
(* sources of the server: packages/code-analyzer-mcp/src/index.ts and      *)
(* unnamed/part_001.  analyze is the library's entry point.                *)
(***************************************************************************)
\* an Error: AppError and its subclasses assign name and code as own properties
Error(name, message, code) == [ name |-> name, message |-> message, code |-> code ]

NoError == Error("none", "", undefined)

\* JSON.stringify(error): the own enumerable properties; message and stack are
\* not among them, and a property that is undefined is left out
JSONstringify(err) ==
    IF err.name \in { "FileSystemError", "ParserError", "Neo4jError" }
    THEN "{\"name\":\"" \o err.name \o "\""
           \o (IF err.code # undefined THEN ",\"code\":\"" \o err.code \o "\"" ELSE "") \o "}"
    ELSE "{}"

\* a tool response
Response(text, isError) == [ text |-> text, isError |-> isError ]

NoResponse == Response("", undefined)

\* the response of the catch block of the run_analyzer callback
catchResponse(source, err) ==
    IF source = "packages/code-analyzer-mcp/src/index.ts"
    THEN Response(JSONstringify(err), "true")
    ELSE Response(JSONstringify(err), undefined)

\* fsPromises.rmdir(config.tempDir).catch(console.error): removes the directory
\* if it exists and is empty; otherwise the error is printed
rmdir(dir) == IF dir.exists /\ dir.files = {} THEN [ dir EXCEPT !.exists = FALSE ] ELSE dir

storageVars == << envStorageBatchSize, batchSize, finalRecords, saveCalls, loopIndex, submitted >>

\* the variables of the components that are specified on their own
pass1Vars == << invocations, childProcesses, tempFiles, unlinked >>

clientVars == << analyzeCall, neo4jClient, drivers >>

componentVars == << storageVars, pass1Vars, clientVars >>

mcpVars == << handler, mcpPc, directoryArg, tmp, thrown, response, ending >>

cliVars == << options, finalOptions, cliPc, cliClient, serviceClient, connected, databases, exitCode >>

vars == << pc, run, tree, files, parseState, tempDir, tsResults, pass1Nodes, pass1Relationships,
           nodeIndex, finalRelationships, writeQueue, driver, store, outcome,
           log, dispatched, history, cliVars, mcpVars, componentVars >>

InitAnalysis ==
    /\ pc = "idle"
    /\ run = 0
    /\ tree \in Trees
    /\ files = <<>>
    /\ parseState = <<>>
    /\ tempDir = {}
    /\ tsResults = <<>>
    /\ pass1Nodes = <<>>
    /\ pass1Relationships = <<>>
    /\ nodeIndex = <<>>
    /\ finalRelationships = <<>>
    /\ writeQueue = <<>>
    /\ driver = "null"
    /\ store = EmptyStore
    /\ outcome = Outcome("none")
    /\ log = <<>>
    /\ dispatched = <<>>
    /\ history = <<>>

\* no analyze command is running
InitNoCommand ==
    /\ options = NoOptions
    /\ finalOptions = NoOptions
    /\ cliPc = "none"
    /\ cliClient = undefined
    /\ serviceClient = undefined
    /\ connected = FALSE
    /\ databases = [ d \in Databases |-> [ nodes |-> { "stale" }, schema |-> FALSE ] ]
    /\ exitCode = 0

\* no MCP server is running
InitNoServer ==
    /\ handler = "none"
    /\ mcpPc = "none"
    /\ directoryArg = ""
    /\ tmp = [ exists |-> FALSE, files |-> {} ]
    /\ thrown = NoError
    /\ response = NoResponse
    /\ ending = "none"

\* no component is exercised on its own
InitNoComponent ==
    /\ envStorageBatchSize = <<>>
    /\ batchSize = storageBatchSize
    /\ finalRecords = [ nodes |-> <<>>, relationships |-> <<>> ]
    /\ saveCalls = <<>>
    /\ loopIndex = 0
    /\ submitted = <<>>
    /\ invocations = <<>>
    /\ childProcesses = {}
    /\ tempFiles = {}
    /\ unlinked = {}
    /\ analyzeCall = [ pc |-> "idle", run |-> 0, batches |-> 0, outcome |-> "pending" ]
    /\ neo4jClient = [ driver |-> 0 ]
    /\ drivers = <<>>

Init == InitAnalysis /\ InitNoCommand /\ InitNoServer /\ InitNoComponent

\* analyze(): scan; an empty scan returns at once (through the finally block)
AnalyzeScan ==
    /\ pc \in {"idle", "done"}
    /\ run < MaxRuns
    /\ run' = run + 1
    /\ files' = scan(tree.directory, supportedExtensions, ignorePatterns)
    /\ parseState' = [ p \in FilePaths(files') |-> "none" ]
    /\ pass1Nodes' = <<>>
    /\ pass1Relationships' = <<>>
    /\ nodeIndex' = <<>>
    /\ finalRelationships' = <<>>
    /\ writeQueue' = <<>>
    /\ log' = <<>>
    /\ IF files' = <<>>
       THEN pc' = "finally" /\ outcome' = Outcome("resolved")
       ELSE pc' = "parseFiles" /\ outcome' = Outcome("pending")
    /\ dispatched' = <<>>
    /\ UNCHANGED << tree, tempDir, tsResults, driver, store, history, cliVars, mcpVars, componentVars >>

\* Parser.parseFiles up to its await Promise.all: every language parser's
\* parseFile is started, TS/JS files are parsed in the shared project
ParseFilesStart ==
    /\ pc = "parseFiles"
    /\ parseState' = [ p \in FilePaths(files) |->
                         IF Dispatch(FileAt(files, p)) \in { "python", "cpp", "java", "go", "csharp" } THEN "pending" ELSE "null" ]
    /\ tsResults' = parseTsProjectFiles(files, tree.broken)
    /\ dispatched' = [ p \in FilePaths(files) |-> Dispatch(FileAt(files, p)) ]
    /\ pc' = "awaitAll"
    /\ UNCHANGED << run, tree, files, tempDir, pass1Nodes, pass1Relationships, nodeIndex,
                    finalRelationships, writeQueue, driver, store, outcome, log, history, cliVars, mcpVars, componentVars >>

\* a language parser's parseFile settles: it writes its temp file and
\* fulfils, or throws a ParserError that the caller's catch turns into null
ParserSettle(p) ==
    /\ p \in DOMAIN parseState
    /\ parseState[p] = "pending"
    /\ IF p \in tree.broken
       THEN /\ parseState' = [ parseState EXCEPT ![p] = catchParseError("ParserError") ]
            /\ UNCHANGED tempDir
       ELSE /\ parseState' = [ parseState EXCEPT ![p] = "fulfilled" ]
            /\ tempDir' = tempDir \cup { Pass1Result(FileAt(files, p)) }
    /\ UNCHANGED << dispatched, pc, run, tree, files, tsResults, pass1Nodes, pass1Relationships,
                    nodeIndex, finalRelationships, writeQueue, driver, store, outcome, log, history, cliVars, mcpVars, componentVars >>

\* await Promise.all(parsePromises) returns; a rejected promise would reject
\* parseFiles and with it analyze
ParseFilesDone ==
    /\ pc = "awaitAll"
    /\ allSettled(parseState, files)
    /\ IF \E p \in DOMAIN parseState : parseState[p] = "rejected"
       THEN pc' = "finally" /\ outcome' = Outcome("rejected:ParserError")
       ELSE pc' = "collectResults" /\ UNCHANGED outcome
    /\ UNCHANGED << dispatched, run, tree, files, parseState, tempDir, tsResults, pass1Nodes, pass1Relationships,
                    nodeIndex, finalRelationships, writeQueue, driver, store, log,
                    history, cliVars, mcpVars, componentVars >>

\* Parser.collectResults: the temp files are read in the order fs.readdir
\* lists them (no order is specified for it), merged and deleted; then the
\* in-memory TS results are merged and cleared.  analyze() returns if no
\* node was collected.
CollectResults ==
    /\ pc = "collectResults"
    /\ \E order \in Orderings(tempDir) :
         LET collected == collectResults(order, tsResults)
         IN  /\ pass1Nodes' = collected.allNodes
             /\ pass1Relationships' = collected.allRelationships
             /\ IF collected.allNodes = <<>>
                THEN pc' = "finally" /\ outcome' = Outcome("resolved")
                ELSE pc' = "resolveRelationships" /\ UNCHANGED outcome
    /\ tempDir' = {}
    /\ tsResults' = <<>>
    /\ UNCHANGED << dispatched, run, tree, files, parseState, nodeIndex, finalRelationships, writeQueue, driver,
                    store, log, history, cliVars, mcpVars, componentVars >>

\* Pass 2: new RelationshipResolver(...).resolveRelationships(tsProject), then
\* the de-duplication of the combined relationships; an exception of a
\* resolver goes to the catch block of analyze, which rethrows it
ResolveRelationships ==
    /\ pc = "resolveRelationships"
    /\ nodeIndex' = buildNodeIndex(pass1Nodes)
    /\ IF resolveRelationshipsThrows(nodeIndex', tree.throwing)
       THEN /\ outcome' = Outcome("TypeError")
            /\ pc' = "finally"
            /\ UNCHANGED finalRelationships
       ELSE /\ finalRelationships' = uniqueRelationships(pass1Relationships,
                                                         resolveRelationships(nodeIndex'))
            /\ pc' = "initializeDriver"
            /\ UNCHANGED outcome
    /\ UNCHANGED << dispatched, run, tree, files, parseState, tempDir, tsResults, pass1Nodes, pass1Relationships,
                    writeQueue, driver, store, log, history, cliVars, mcpVars, componentVars >>

\* Neo4jClient.initializeDriver: connects, or throws a Neo4jError
InitializeDriver ==
    /\ pc = "initializeDriver"
    /\ \/ /\ driver' = "open"
          /\ writeQueue' = WritePlan(pass1Nodes, finalRelationships)
          /\ pc' = "store"
          /\ UNCHANGED outcome
       \/ /\ outcome' = Neo4jError("undefined")
          /\ pc' = "finally"
          /\ UNCHANGED << driver, writeQueue >>
    /\ UNCHANGED << dispatched, run, tree, files, parseState, tempDir, tsResults, pass1Nodes,
                    pass1Relationships, nodeIndex, finalRelationships, store, log, history, cliVars, mcpVars, componentVars >>

\* one transaction of saveNodesBatch / saveRelationshipsBatch commits
SubmitBatchOk ==
    /\ pc = "store"
    /\ writeQueue # <<>>
    /\ store' = applyBatch(store, Head(writeQueue))
    /\ writeQueue' = Tail(writeQueue)
    /\ log' = Append(log, [ batch |-> Head(writeQueue), result |-> "committed", code |-> "" ])
    /\ UNCHANGED << dispatched, pc, run, tree, files, parseState, tempDir, tsResults, pass1Nodes, pass1Relationships,
                    nodeIndex, finalRelationships, driver, outcome, history, cliVars, mcpVars, componentVars >>

\* one transaction fails: runTransaction and the batch loop's catch rethrow
\* it, the loops are left and analyze's catch rethrows
SubmitBatchFail ==
    /\ pc = "store"
    /\ writeQueue # <<>>
    /\ \E code \in { "ServiceUnavailable", "Neo.TransientError.Transaction.DeadlockDetected" } :
         /\ outcome' = saveBatchError(runTransactionError([ name |-> "DriverError", code |-> code ]))
         /\ log' = Append(log, [ batch |-> Head(writeQueue), result |-> "failed", code |-> code ])
    /\ pc' = "finally"
    /\ UNCHANGED << dispatched, run, tree, files, parseState, tempDir, tsResults, pass1Nodes, pass1Relationships,
                    nodeIndex, finalRelationships, writeQueue, driver, store, history, cliVars, mcpVars, componentVars >>

\* every batch was committed
StoreDone ==
    /\ pc = "store"
    /\ writeQueue = <<>>
    /\ outcome' = Outcome("resolved")
    /\ pc' = "finally"
    /\ UNCHANGED << dispatched, run, tree, files, parseState, tempDir, tsResults, pass1Nodes, pass1Relationships,
                    nodeIndex, finalRelationships, writeQueue, driver, store, log,
                    history, cliVars, mcpVars, componentVars >>

\* the finally block of analyze(): Neo4jClient.closeDriver
CloseDriver ==
    /\ pc = "finally"
    /\ driver' = "null"
    /\ pc' = "done"
    /\ history' = Append(history, [ outcome |-> outcome.name, nodes |-> Range(pass1Nodes),
                                    store |-> store ])
    /\ UNCHANGED << dispatched, run, tree, files, parseState, tempDir, tsResults, pass1Nodes, pass1Relationships,
                    nodeIndex, finalRelationships, writeQueue, store, outcome, log, cliVars, mcpVars, componentVars >>

Next ==
    \/ AnalyzeScan
    \/ ParseFilesStart
    \/ \E p \in DOMAIN parseState : ParserSettle(p)
    \/ ParseFilesDone
    \/ CollectResults
    \/ ResolveRelationships
    \/ InitializeDriver
    \/ SubmitBatchOk
    \/ SubmitBatchFail
    \/ StoreDone
    \/ CloseDriver

Spec == Init /\ [][Next]_vars

(***************************************************************************)
(* The action callback of the analyze command, over one target directory.  *)
(***************************************************************************)
analysisVars == << pc, run, tree, parseState, tempDir, tsResults, pass1Nodes, pass1Relationships,
                   nodeIndex, finalRelationships, writeQueue, driver, store, outcome,
                   log, dispatched, history >>

InitCommand ==
    /\ InitAnalysis
    \* the command lines of the model
    /\ options \in
           LET Item(text, startsWithDot) == [ text |-> text, startsWithDot |-> startsWithDot ]
           IN  { AnalyzeOptions(extensions, ignore, updateSchema, resetDb, neo4jUrl, neo4jDatabase) :
                   extensions \in { <<>>, << Item(".ts", TRUE) >>, << Item("py", FALSE) >>,
                                    << Item(".java", TRUE), Item(".py", TRUE) >> },
                   ignore \in { {} },
                   updateSchema \in BOOLEAN, resetDb \in BOOLEAN,
                   neo4jUrl \in { undefined, "bolt://graph:7687" },
                   neo4jDatabase \in { undefined, "other" } }
    /\ finalOptions = NoOptions
    /\ cliPc = "start"
    /\ cliClient = NoClient
    /\ serviceClient = NoClient
    /\ connected = FALSE
    /\ databases = [ d \in Databases |-> [ nodes |-> { "stale" }, schema |-> FALSE ] ]
    /\ exitCode = 0
    /\ InitNoServer
    /\ InitNoComponent

\* finalOptions and the command's Neo4jClient, built from the options
AnalyzeCommandStart ==
    /\ cliPc = "start"
    /\ finalOptions' = FinalOptions(options)
    /\ cliClient' = Neo4jClient([ uri |-> options.neo4jUrl, username |-> options.neo4jUser,
                                  password |-> options.neo4jPassword,
                                  database |-> options.neo4jDatabase ])
    /\ cliPc' = "initializeDriver"
    /\ UNCHANGED << analysisVars, mcpVars, componentVars, files, options, serviceClient, connected, databases, exitCode >>

\* await neo4jClient.initializeDriver('Analyzer'); a failure goes to the catch block
AnalyzeCommandConnect ==
    /\ cliPc = "initializeDriver"
    /\ \E ok \in BOOLEAN :
         IF ok THEN connected' = TRUE /\ cliPc' = "schema" /\ UNCHANGED exitCode
         ELSE exitCode' = 1 /\ cliPc' = "finally" /\ UNCHANGED connected
    /\ UNCHANGED << analysisVars, mcpVars, componentVars, files, options, finalOptions, cliClient, serviceClient, databases >>

\* schemaManager.resetDatabase() and schemaManager.applySchema(true), both
\* through the command's client
AnalyzeCommandSchema ==
    /\ cliPc = "schema"
    /\ LET target == DatabaseOf(cliClient)
           afterReset == IF finalOptions.resetDb
                         THEN [ databases EXCEPT ![target].nodes = {} ]
                         ELSE databases
       IN  databases' = IF finalOptions.updateSchema \/ finalOptions.resetDb
                        THEN [ afterReset EXCEPT ![target].schema = TRUE ]
                        ELSE afterReset
    /\ cliPc' = "analyze"
    /\ UNCHANGED << analysisVars, mcpVars, componentVars, files, options, finalOptions, cliClient, serviceClient, connected,
                    exitCode >>

\* new AnalyzerService(), whose constructor takes new Neo4jClient() with no
\* override, and await analyzerService.analyze(absoluteDirPath): the scan, and
\* on success the File nodes written through the service's client;
\* a rejection goes to the catch block
AnalyzeCommandRun ==
    /\ cliPc = "analyze"
    /\ serviceClient' = Neo4jClient(NoClient)
    /\ files' = scan(tree.directory, supportedExtensions, ignorePatterns)
    /\ \E resolved \in BOOLEAN :
         IF resolved
         THEN /\ databases' = [ databases EXCEPT ![DatabaseOf(serviceClient')].nodes =
                                    @ \cup { f.path : f \in { g \in Range(files') :
                                                                Dispatch(g) # "skip" } } ]
              /\ UNCHANGED exitCode
         ELSE exitCode' = 1 /\ UNCHANGED databases
    /\ cliPc' = "finally"
    /\ UNCHANGED << analysisVars, mcpVars, componentVars, options, finalOptions, cliClient, connected >>

\* the finally block: the command's client is closed if it had connected
AnalyzeCommandFinally ==
    /\ cliPc = "finally"
    /\ connected' = FALSE
    /\ cliPc' = "done"
    /\ UNCHANGED << analysisVars, mcpVars, componentVars, files, options, finalOptions, cliClient, serviceClient, databases,
                    exitCode >>

NextCommand ==
    \/ AnalyzeCommandStart
    \/ AnalyzeCommandConnect
    \/ AnalyzeCommandSchema
    \/ AnalyzeCommandRun
    \/ AnalyzeCommandFinally

SpecCommand == InitCommand /\ [][NextCommand]_vars

(***************************************************************************)
(* The MCP server: one call of run_analyzer, and the signal handlers.      *)
(***************************************************************************)
\* the server is started: config has created its temporary directory
InitServer ==
    /\ InitAnalysis
    /\ tree = Tree(DirectoryTs, {})
    /\ InitNoCommand
    /\ handler \in { "packages/code-analyzer-mcp/src/index.ts", "unnamed/part_001" }
    /\ mcpPc = "idle"
    /\ directoryArg = ""
    /\ tmp = [ exists |-> TRUE, files |-> {} ]
    /\ thrown = NoError
    /\ response = NoResponse
    /\ ending = "none"
    /\ InitNoComponent

\* the callback up to await analyze(...): an empty directory argument is
\* answered at once
RunAnalyzer ==
    /\ mcpPc = "idle"
    /\ \E directory \in { "", "/w", "/v" } :
         /\ directoryArg' = directory
         /\ IF directory = ""
            THEN /\ response' = Response("Invalid directory input provided.", "true")
                 /\ mcpPc' = "responded"
            ELSE /\ mcpPc' = "analyze"
                 /\ UNCHANGED response
    /\ UNCHANGED << analysisVars, files, cliVars, componentVars, handler, tmp, thrown, ending >>

\* analyze settles: it resolves, having deleted the result files it read, or
\* rejects, with or without result files left in the temporary directory
AnalyzeSettles ==
    /\ mcpPc = "analyze"
    /\ \/ /\ thrown' = NoError
          /\ ending' = "success"
          /\ UNCHANGED tmp
       \/ \E err \in { Error("FileSystemError", "Failed to scan directory: /w", undefined),
                       Error("Neo4jError", "Failed to connect to Neo4j", undefined),
                       Error("Neo4jError", "Failed to save relationship batch", "ServiceUnavailable"),
                       Error("TypeError", "x is not a function", undefined) },
             left \in { {}, { "m.py.json" } } :
            /\ thrown' = err
            /\ ending' = "error"
            /\ tmp' = [ tmp EXCEPT !.files = left ]
    /\ mcpPc' = "cleanTmp"
    /\ UNCHANGED << analysisVars, files, cliVars, componentVars, handler, directoryArg, response >>

\* the rest of the try block or the catch block: the temporary directory is
\* removed and the response returned
CleanTmpAndRespond ==
    /\ mcpPc = "cleanTmp"
    /\ tmp' = rmdir(tmp)
    /\ response' = IF thrown = NoError
                   THEN Response("Successfully indexed the project at " \o directoryArg, undefined)
                   ELSE catchResponse(handler, thrown)
    /\ mcpPc' = "responded"
    /\ UNCHANGED << analysisVars, files, cliVars, componentVars, handler, directoryArg, thrown, ending >>

\* process.on('SIGINT' | 'SIGTERM'): server.close() and process.exit(0); an
\* analysis that has not settled is cancelled
Signal ==
    /\ mcpPc \in { "idle", "analyze", "cleanTmp", "responded" }
    /\ mcpPc' = "exited"
    /\ ending' = IF mcpPc = "analyze" THEN "cancelled" ELSE ending
    /\ UNCHANGED << analysisVars, files, cliVars, componentVars, handler, directoryArg, tmp, thrown, response >>

NextServer ==
    \/ RunAnalyzer
    \/ AnalyzeSettles
    \/ CleanTmpAndRespond
    \/ Signal

SpecServer == InitServer /\ [][NextServer]_vars

(***************************************************************************)
(* The batch size and the batch loops of the StorageManager, on their own: *)
(* config is loaded with some STORAGE_BATCH_SIZE in the environment, then  *)
(* analyze hands finalNodes to saveNodesBatch and the relationships of     *)
(* each type to saveRelationshipsBatch.                                    *)
(***************************************************************************)
\* parseInt(string, 10): leading white space is skipped, a sign is read, then
\* the longest run of decimal digits; what follows it is ignored; without a
\* digit the result is NaN
parseInt(string) ==
    LET digits == << "0", "1", "2", "3", "4", "5", "6", "7", "8", "9" >>
        DigitValue(c) == (CHOOSE d \in 1..10 : digits[d] = c) - 1
        IsWhiteSpace(c) == c \in { " ", "\t", "\n" }
        start == CHOOSE k \in 1..(Len(string) + 1) :
                     /\ \A j \in 1..(k - 1) : IsWhiteSpace(string[j])
                     /\ k <= Len(string) => ~IsWhiteSpace(string[k])
        signed == start <= Len(string) /\ string[start] \in { "+", "-" }
        first == IF signed THEN start + 1 ELSE start
        last == CHOOSE k \in (first - 1)..Len(string) :
                    /\ \A j \in first..k : string[j] \in Range(digits)
                    /\ k < Len(string) => string[k + 1] \notin Range(digits)
        RECURSIVE Value(_)
        Value(k) == IF k < first THEN 0 ELSE 10 * Value(k - 1) + DigitValue(string[k])
    IN  [ isNaN |-> last < first,
          value |-> IF signed /\ string[start] = "-" THEN 0 - Value(last) ELSE Value(last) ]

\* config.storageBatchSize: parseInt(process.env.STORAGE_BATCH_SIZE || '100',
\* 10), replaced by 100 when it is NaN or not above 0
loadStorageBatchSize(env) ==
    LET parsed == parseInt(IF env = <<>> THEN << "1", "0", "0" >> ELSE env)
    IN  IF parsed.isNaN \/ parsed.value <= 0 THEN 100 ELSE parsed.value

\* the texts of STORAGE_BATCH_SIZE: up to MaxEnvLen characters; the lists of
\* up to MaxRecords nodes and up to MaxRecords relationships of two types
InitStorage ==
    /\ InitAnalysis
    /\ tree = Tree(DirectoryTs, {})
    /\ InitNoCommand
    /\ InitNoServer
    /\ invocations = <<>> /\ childProcesses = {} /\ tempFiles = {} /\ unlinked = {}
    /\ analyzeCall = [ pc |-> "idle", run |-> 0, batches |-> 0, outcome |-> "pending" ]
    /\ neo4jClient = [ driver |-> 0 ]
    /\ drivers = <<>>
    /\ envStorageBatchSize \in
           UNION { [ 1..n -> { "0", "1", "2", "-", ".", "x" } ] : n \in 0..MaxEnvLen }
    /\ batchSize = loadStorageBatchSize(envStorageBatchSize)
    /\ \E n \in 0..MaxRecords, m \in 0..MaxRecords :
         \E types \in [ 1..m -> { "CALLS", "IMPORTS" } ] :
           finalRecords =
               [ nodes |-> [ k \in 1..n |-> [ entityId |-> k ] ],
                 relationships |-> [ k \in 1..m |-> [ entityId |-> k, type |-> types[k] ] ] ]
    /\ saveCalls =
           LET rels == finalRecords.relationships
               types == TypeOrder(rels, <<>>)
           IN  << Batch("nodes", "", finalRecords.nodes) >>
                 \o [ t \in 1..Len(types) |->
                        Batch("relationships", types[t], relationshipsOfType(rels, types[t])) ]
    /\ loopIndex = 0
    /\ submitted = <<>>

\* one turn of the loop for (let i = 0; i < n; i += this.batchSize): the
\* slice from i to i + batchSize is handed to runTransaction
SaveBatch ==
    /\ saveCalls # <<>>
    /\ loopIndex < Len(Head(saveCalls).items)
    /\ LET call == Head(saveCalls)
           batch == SubSeq(call.items, loopIndex + 1, Min(loopIndex + batchSize, Len(call.items)))
       IN  submitted' = Append(submitted, Batch(call.kind, call.type, batch))
    /\ loopIndex' = loopIndex + batchSize
    /\ UNCHANGED << envStorageBatchSize, batchSize, finalRecords, saveCalls,
                    analysisVars, files, cliVars, mcpVars, pass1Vars, clientVars >>

\* the loop is left (or the list was empty) and the call returns
SaveReturn ==
    /\ saveCalls # <<>>
    /\ loopIndex >= Len(Head(saveCalls).items)
    /\ saveCalls' = Tail(saveCalls)
    /\ loopIndex' = 0
    /\ UNCHANGED << envStorageBatchSize, batchSize, finalRecords, submitted,
                    analysisVars, files, cliVars, mcpVars, pass1Vars, clientVars >>

NextStorage == SaveBatch \/ SaveReturn

SpecStorage == InitStorage /\ [][NextStorage]_vars

(***************************************************************************)
(* Pass 1 over Python files and the collection of its result files, for    *)
(* the analyze invocations of one process (the MCP server answers each     *)
(* run_analyzer call with one).  config.tempDir is computed once, when the *)
(* config module is loaded, so the invocations share it.  There is one     *)
(* result file per source path (getTempFilePath is not among the sources); *)
(* the invocations of the model analyse directories with different files.  *)
(***************************************************************************)
\* the first invocation analyses a directory of cpuCount + 1 Python files,
\* every other one a directory of one Python file
InitPass1 ==
    /\ InitAnalysis
    /\ tree = Tree(DirectoryTs, {})
    /\ InitNoCommand
    /\ InitNoServer
    /\ envStorageBatchSize = <<>> /\ batchSize = storageBatchSize
    /\ finalRecords = [ nodes |-> <<>>, relationships |-> <<>> ]
    /\ saveCalls = <<>> /\ loopIndex = 0 /\ submitted = <<>>
    /\ invocations =
           [ r \in 1..MaxInvocations |->
               [ pc |-> "idle",
                 promises |-> [ path \in { "/d" \o ToString(r) \o "/m" \o ToString(k) \o ".py" :
                                            k \in 1..(IF r = 1 THEN cpuCount + 1 ELSE 1) } |-> "called" ],
                 merged |-> {} ] ]
    /\ childProcesses = {}
    /\ tempFiles = {}
    /\ unlinked = {}
    /\ analyzeCall = [ pc |-> "idle", run |-> 0, batches |-> 0, outcome |-> "pending" ]
    /\ neo4jClient = [ driver |-> 0 ]
    /\ drivers = <<>>

\* Parser.parseFiles calls pythonParser.parseFile for every .py file in one
\* loop, without waiting; each call, after ensureTempDir, runs
\* runPythonScript, which spawns a child process.  The first spawn of an
\* invocation stands for its start.
PythonSpawn(r, path) ==
    /\ r \in DOMAIN invocations
    /\ invocations[r].pc \in { "idle", "parseFiles" }
    /\ path \in DOMAIN invocations[r].promises
    /\ invocations[r].promises[path] = "called"
    /\ invocations' = [ invocations EXCEPT ![r].pc = "parseFiles", ![r].promises[path] = "spawned" ]
    /\ childProcesses' = childProcesses \cup { [ invocation |-> r, path |-> path ] }
    /\ UNCHANGED << tempFiles, unlinked, analysisVars, files, cliVars, mcpVars, storageVars, clientVars >>

\* the child closes.  With code 0 parseFile writes the result file and
\* fulfils; otherwise runPythonScript rejects, parseFile's catch unlinks
\* tempFilePath and throws, and the catch of parseFiles yields null.
PythonClose(r, path) ==
    /\ r \in DOMAIN invocations
    /\ [ invocation |-> r, path |-> path ] \in childProcesses
    /\ childProcesses' = childProcesses \ { [ invocation |-> r, path |-> path ] }
    /\ \/ /\ tempFiles' = tempFiles \cup { [ invocation |-> r, path |-> path ] }
          /\ invocations' = [ invocations EXCEPT ![r].promises[path] = "fulfilled" ]
          /\ UNCHANGED unlinked
       \/ /\ tempFiles' = { f \in tempFiles : f.path # path }
          /\ unlinked' = unlinked \cup { [ file |-> f, by |-> r ] : f \in { g \in tempFiles : g.path = path } }
          /\ invocations' = [ invocations EXCEPT ![r].promises[path] = "null" ]
    /\ UNCHANGED << analysisVars, files, cliVars, mcpVars, storageVars, clientVars >>

\* await Promise.all(parsePromises) returns and analyze goes on to
\* collectResults
Pass1Done(r) ==
    /\ r \in DOMAIN invocations
    /\ invocations[r].pc = "parseFiles"
    /\ \A path \in DOMAIN invocations[r].promises :
           invocations[r].promises[path] \in { "fulfilled", "null" }
    /\ invocations' = [ invocations EXCEPT ![r].pc = "collectResults" ]
    /\ UNCHANGED << childProcesses, tempFiles, unlinked, analysisVars, files, cliVars, mcpVars, storageVars, clientVars >>

\* Parser.collectResults over config.tempDir.  If fs.readdir succeeds, every
\* .json file it lists is read: a valid result is merged; a file with an
\* invalid structure is skipped; a file that cannot be read or parsed goes to
\* the inner catch; in all three cases the file is unlinked (at most one file
\* of a listing is invalid or unreadable here).  If fs.readdir throws, the
\* outer catch logs and no file is read or unlinked.
CollectTempDir(r) ==
    /\ r \in DOMAIN invocations
    /\ invocations[r].pc = "collectResults"
    /\ \/ \E skipped \in { {} } \cup { { f } : f \in tempFiles } :
            /\ invocations' = [ invocations EXCEPT ![r].pc = "collected",
                                                   ![r].merged = tempFiles \ skipped ]
            /\ unlinked' = unlinked \cup { [ file |-> f, by |-> r ] : f \in tempFiles }
            /\ tempFiles' = {}
       \/ /\ invocations' = [ invocations EXCEPT ![r].pc = "collected" ]
          /\ UNCHANGED << tempFiles, unlinked >>
    /\ UNCHANGED << childProcesses, analysisVars, files, cliVars, mcpVars, storageVars, clientVars >>

NextPass1 ==
    \/ \E r \in DOMAIN invocations : \E path \in DOMAIN invocations[r].promises : PythonSpawn(r, path)
    \/ \E r \in DOMAIN invocations : \E path \in DOMAIN invocations[r].promises : PythonClose(r, path)
    \/ \E r \in DOMAIN invocations : Pass1Done(r)
    \/ \E r \in DOMAIN invocations : CollectTempDir(r)

SpecPass1 == InitPass1 /\ [][NextPass1]_vars

(***************************************************************************)
(* The Neo4jClient of the AnalyzerService over successive analyze calls:   *)
(* the drivers it creates, the sessions they give out, and what the client *)
(* holds.  driver.close() and session.close() return promises that may     *)
(* reject; the client catches and logs both.                               *)
(***************************************************************************)
InitClient ==
    /\ InitAnalysis
    /\ tree = Tree(DirectoryTs, {})
    /\ InitNoCommand
    /\ InitNoServer
    /\ envStorageBatchSize = <<>> /\ batchSize = storageBatchSize
    /\ finalRecords = [ nodes |-> <<>>, relationships |-> <<>> ]
    /\ saveCalls = <<>> /\ loopIndex = 0 /\ submitted = <<>>
    /\ invocations = <<>> /\ childProcesses = {} /\ tempFiles = {} /\ unlinked = {}
    /\ analyzeCall = [ pc |-> "idle", run |-> 0, batches |-> 0, outcome |-> "pending" ]
    /\ neo4jClient = [ driver |-> 0 ]
    /\ drivers = <<>>

\* Neo4jClient.closeDriver: nothing to do without a driver; otherwise
\* driver.close() is awaited and the field is set to null after it, and when
\* close() rejects the catch logs the error and the field keeps the driver.
\* The value is the client and the drivers afterwards.
closeDriver(client, created, closeRejects) ==
    IF client.driver = 0 \/ closeRejects
    THEN [ client |-> client, drivers |-> created ]
    ELSE [ client |-> [ client EXCEPT !.driver = 0 ],
           drivers |-> [ created EXCEPT ![client.driver].open = FALSE ] ]

\* analyze is called: no file is found, or Pass 1 yields no node (analyze
\* returns), or Pass 1 or Pass 2 throws, or the results go to the store in
\* one to MaxBatches transactions
AnalyzeEnter ==
    /\ analyzeCall.pc \in { "idle", "settled" }
    /\ analyzeCall.run < MaxRuns
    /\ \E path \in { "noFiles", "noNodes", "throws", "store" } : \E batches \in 1..MaxBatches :
         analyzeCall' = [ pc |-> IF path = "store" THEN "initializeDriver" ELSE "finally",
                          run |-> analyzeCall.run + 1,
                          batches |-> IF path = "store" THEN batches ELSE 0,
                          outcome |-> IF path = "throws" THEN "rejected" ELSE "pending" ]
    /\ UNCHANGED << neo4jClient, drivers, analysisVars, files, cliVars, mcpVars, storageVars, pass1Vars >>

\* Neo4jClient.initializeDriver.  With a driver in the field only
\* verifyConnectivity runs.  Otherwise neo4j.driver() creates one and
\* verifyConnectivity runs inside the try, whose catch sets the field to null
\* and throws.  verifyConnectivity calls closeDriver before it throws.
Neo4jInitializeDriver ==
    /\ analyzeCall.pc = "initializeDriver"
    /\ LET hadDriver == neo4jClient.driver # 0
           created == IF hadDriver THEN drivers
                      ELSE Append(drivers, [ open |-> TRUE, sessions |-> <<>> ])
           client == IF hadDriver THEN neo4jClient ELSE [ driver |-> Len(created) ]
       IN  \/ /\ neo4jClient' = client
              /\ drivers' = created
              /\ analyzeCall' = [ analyzeCall EXCEPT !.pc = "store" ]
           \/ \E closeRejects \in BOOLEAN :
                LET closed == closeDriver(client, created, closeRejects)
                IN  /\ neo4jClient' = IF hadDriver THEN closed.client ELSE [ driver |-> 0 ]
                    /\ drivers' = closed.drivers
                    /\ analyzeCall' = [ analyzeCall EXCEPT !.pc = "finally", !.outcome = "rejected" ]
    /\ UNCHANGED << analysisVars, files, cliVars, mcpVars, storageVars, pass1Vars >>

\* Neo4jClient.runTransaction for one batch: getSession takes a session of
\* the driver, executeWrite commits or throws, and the finally block awaits
\* session.close(), whose rejection is logged.  An error leaves the batch
\* loops and analyze rethrows it.
Neo4jRunTransaction ==
    /\ analyzeCall.pc = "store"
    /\ analyzeCall.batches > 0
    /\ neo4jClient.driver # 0
    /\ \E closeRejects \in BOOLEAN :
         drivers' = [ drivers EXCEPT ![neo4jClient.driver].sessions =
                          Append(@, IF closeRejects THEN "open" ELSE "closed") ]
    /\ \/ analyzeCall' = [ analyzeCall EXCEPT !.batches = @ - 1,
                                             !.pc = IF analyzeCall.batches = 1 THEN "finally" ELSE "store" ]
       \/ analyzeCall' = [ analyzeCall EXCEPT !.pc = "finally", !.outcome = "rejected" ]
    /\ UNCHANGED << neo4jClient, analysisVars, files, cliVars, mcpVars, storageVars, pass1Vars >>

\* the finally block of analyze: closeDriver is awaited, then analyze settles
Neo4jCloseDriver ==
    /\ analyzeCall.pc = "finally"
    /\ \E closeRejects \in BOOLEAN :
         LET closed == closeDriver(neo4jClient, drivers, closeRejects)
         IN  /\ neo4jClient' = closed.client
             /\ drivers' = closed.drivers
    /\ analyzeCall' = [ analyzeCall EXCEPT !.pc = "settled",
                                           !.outcome = IF @ = "pending" THEN "resolved" ELSE @ ]
    /\ UNCHANGED << analysisVars, files, cliVars, mcpVars, storageVars, pass1Vars >>

NextClient ==
    \/ AnalyzeEnter
    \/ Neo4jInitializeDriver
    \/ Neo4jRunTransaction
    \/ Neo4jCloseDriver

SpecClient == InitClient /\ [][NextClient]_vars

(***************************************************************************)
(* Properties.                                                             *)
(***************************************************************************)
\* C1: after collectResults has merged the per-file results (temp JSON files
\* in any order, then the in-memory TS results), no two nodes of the merged
\* node set share an entityId.
C1_MergedNodesHaveUniqueEntityIds ==
    \A i, j \in 1..Len(pass1Nodes) :
        pass1Nodes[i].entityId = pass1Nodes[j].entityId => i = j

\* two Java files that declare the same class were merged: both File nodes
\* are in the merged set, and one node stands for the class
C1_Witness ==
    /\ pc = "resolveRelationships"
    /\ \E i \in 1..Len(pass1Nodes) : pass1Nodes[i].entityId = generateEntityId("file", "/w/x/Calc.java")
    /\ \E i \in 1..Len(pass1Nodes) : pass1Nodes[i].entityId = generateEntityId("file", "/w/y/Calc.java")
    /\ \E i \in 1..Len(pass1Nodes) : pass1Nodes[i].entityId = generateEntityId("javaclass", "com.ex.Calc")

C7_Pass2ReconstructsPass1EntityIds ==
    \A declaration \in { DeclFuncB, DeclBase, DeclBaseRun, DeclShape, DeclLimit, DeclHelper,
                         DeclFuncA, DeclFuncAParamP } :
        \A n \in 1..Len(nodeIndex) :
            LET node == nodeIndex[n]
                targetInfo == getTargetDeclarationInfo(declaration, declaration.filePath)
            IN  (/\ node.kind = targetInfo.kind
                 /\ node.name = declaration.name
                 /\ node.filePath = declaration.filePath
                 /\ node.startLine = declaration.startLine)
                => /\ targetInfo.entityId = node.entityId
                   /\ IndexGet(nodeIndex, targetInfo.entityId) = node

\* C8: when a TS/JS file of the run has a named import of a symbol that a
\* target file of the run declares and exports (function, class, interface or
\* variable), the final relationships hold a RESOLVES_IMPORT edge from the
\* file's Import node to the node of the exported declaration.
C8_NamedImportOfExportIsResolved ==
    pc \in {"initializeDriver", "store"}
    => \A sourceFile \in TsSourceFiles :
         \A d \in 1..Len(sourceFile.imports) :
           \A importNode \in Range(nodeIndex), targetNode \in Range(nodeIndex) :
             (/\ importNode.kind = "Import"
              /\ importNode.filePath = sourceFile.path
              /\ importNode.startLine = sourceFile.imports[d].startLine
              /\ targetNode.filePath = sourceFile.imports[d].resolvedSourceFile
              /\ targetNode.kind \in {"Function", "Class", "Interface", "Variable"}
              /\ targetNode.name \in Range(sourceFile.imports[d].namedImports)
              /\ targetNode.isExported)
             => \E e \in 1..Len(finalRelationships) :
                   /\ finalRelationships[e].type = "RESOLVES_IMPORT"
                   /\ finalRelationships[e].sourceId = importNode.entityId
                   /\ finalRelationships[e].targetId = targetNode.entityId

\* C9: in the final relationships, every CALLS, IMPORTS, INCLUDES, EXTENDS or
\* IMPLEMENTS edge whose target is not in the node index has
\* properties.isPlaceholder = true.
C9_UnresolvedTargetsArePlaceholders ==
    \A e \in 1..Len(finalRelationships) :
        (/\ finalRelationships[e].type \in {"CALLS", "IMPORTS", "INCLUDES", "EXTENDS", "IMPLEMENTS"}
         /\ ~MapHas(nodeIndex, finalRelationships[e].targetId))
        => finalRelationships[e].isPlaceholder = "true"

\* the final relationships hold a CALLS edge and an EXTENDS edge to targets
\* outside the index, and a CALLS edge to a target in it
C9_Witness ==
    /\ \E e \in 1..Len(finalRelationships) :
          /\ finalRelationships[e].type = "CALLS"
          /\ ~MapHas(nodeIndex, finalRelationships[e].targetId)
    /\ \E e \in 1..Len(finalRelationships) :
          /\ finalRelationships[e].type = "EXTENDS"
          /\ ~MapHas(nodeIndex, finalRelationships[e].targetId)
    /\ \E e \in 1..Len(finalRelationships) :
          /\ finalRelationships[e].type = "CALLS"
          /\ MapHas(nodeIndex, finalRelationships[e].targetId)

\* C10: of the records that several per-file results carry for one entityId
\* the merged map keeps one, and two runs over the same tree keep the same
\* record.
C10_CollisionKeepsSameRecordEveryRun ==
    \A r1, r2 \in 1..Len(history) :
        \A kept1 \in history[r1].nodes, kept2 \in history[r2].nodes :
            kept1.entityId = kept2.entityId => kept1 = kept2

\* C11: every scanned file whose extension is one of the supported extensions
\* is routed to a language parser by the switch of parseFiles, and a file the
\* switch skips has an unsupported extension.
C11_SupportedExtensionsAreRouted ==
    \A p \in DOMAIN dispatched :
        FileAt(files, p).extension \in supportedExtensions <=> dispatched[p] # "skip"

\* C12: a file that an ignore pattern matches never appears as a node: no
\* merged node has its path, and no node of the store has the entityId of its
\* File node or of one of its declarations, also when an analyzed file imports
\* it or extends a class it declares.
C12_IgnoredFilesAreNeverNodes ==
    \A path \in ignoredPaths("/w", tree.directory, FALSE, ignorePatterns) :
        LET declarations == { d \in { DeclExternalBase } : d.filePath = path }
            entityIds == { generateEntityId("file", path) }
                           \cup { getTargetDeclarationInfo(d, PathA).entityId : d \in declarations }
        IN  /\ \A n \in 1..Len(pass1Nodes) : pass1Nodes[n].filePath # path
            /\ \A node \in BagToSet(store.nodes) : node.entityId \notin entityIds

\* C13: the database the analysis writes to is the one the connection options
\* of the command line identify (the defaults where an option is absent), and
\* it is the database that resetDb cleared and updateSchema prepared.
C13_WritesToTheDatabaseTheCallerNamed ==
    (cliPc \in {"finally", "done"} /\ serviceClient # NoClient)
        => /\ DatabaseOf(serviceClient)
                = << IF options.neo4jUrl # undefined THEN options.neo4jUrl ELSE config.neo4jUrl,
                     IF options.neo4jDatabase # undefined THEN options.neo4jDatabase
                     ELSE config.neo4jDatabase >>
           /\ DatabaseOf(serviceClient) = DatabaseOf(cliClient)

\* C14: when the command line gives an extensions list, the files scanned are
\* exactly the files of the directory, outside the ignored paths, whose
\* extension is in that list.
C14_SuppliedExtensionsOverrideDefaults ==
    (cliPc \in {"finally", "done"} /\ serviceClient # NoClient /\ options.extensions # <<>>)
        => files = scan(tree.directory, finalOptions.extensions, ignorePatterns)

\* C15: however an analysis started by run_analyzer has ended (success, a
\* thrown error, or a cancellation by SIGINT/SIGTERM), once the callback has
\* returned or the process has exited the temporary directory no longer exists.
C15_TempDirIsDeletedOnEveryExit ==
    (mcpPc \in { "responded", "exited" } /\ ending \in { "success", "error", "cancelled" })
        => ~tmp.exists

\* C17: a response to a call that failed (invalid directory, or analyze
\* rejecting) has isError true and carries the message or the serialized
\* error; a response to a call that succeeded has no isError.
C17_FailureResponsesAreMarkedAsErrors ==
    mcpPc = "responded"
        => /\ directoryArg = "" => response.isError = "true"
           /\ thrown # NoError
                => response.isError = "true" /\ response.text = JSONstringify(thrown)
           /\ (directoryArg # "" /\ thrown = NoError) => response.isError = undefined

\* C16: when the target directory itself cannot be read, the scan throws a
\* FileSystemError and analyze rejects with it; an unreadable directory below
\* the target directory does not make the run reject with a FileSystemError.
C16_UnreadableTargetDirectoryAbortsTheRun ==
    (run > 0 /\ pc \in { "finally", "done" })
        => LET unreadableBelow == \E k \in 1..Len(tree.directory.entries) :
                                      /\ tree.directory.entries[k].type = "directory"
                                      /\ ~tree.directory.entries[k].readable
           IN  /\ ~tree.directory.readable => outcome.name = "FileSystemError"
               /\ (tree.directory.readable /\ unreadableBelow) => outcome.name # "FileSystemError"

\* C18: when a resolver throws on one file in Pass 2, the pass is not aborted:
\* analyze does not reject with the resolver's exception, and the edges of the
\* resolvers for every other file are in the relationships handed to the store.
C18_ResolverFailureDoesNotAbortPass2 ==
    (nodeIndex # <<>> /\ resolveRelationshipsThrows(nodeIndex, tree.throwing))
        => /\ outcome.name # "TypeError"
           /\ pc # "resolveRelationships"
                => \A k \in 1..Len(nodeIndex) :
                     LET fileNode == nodeIndex[k]
                     IN  (/\ fileNode.kind = "File"
                          /\ HasTsSourceFile(fileNode.filePath)
                          /\ fileNode.filePath \notin tree.throwing)
                         => Range(resolveTsModules(TsSourceFile(fileNode.filePath), fileNode, nodeIndex)
                                    \o resolveTsInheritance(TsSourceFile(fileNode.filePath), fileNode,
                                                            nodeIndex))
                              \subseteq Range(finalRelationships)

\* C19: once Pass 2 has run, every IncludeDirective node of a C/C++ file has a
\* File-to-File INCLUDES edge from its file to the File node of the index
\* whose filePath is the include path (exactly, or else as a suffix below the
\* target directory), or to the placeholder file:<include path> if no File
\* node matches.
C19_IncludesTargetTheIndexedFile ==
    (nodeIndex # <<>> /\ pc # "resolveRelationships"
       /\ ~resolveRelationshipsThrows(nodeIndex, tree.throwing))
        => \A d \in 1..Len(nodeIndex) :
             nodeIndex[d].kind = "IncludeDirective"
                => LET includePath == nodeIndex[d].includePath
                       fileNodes == { n \in Range(nodeIndex) : n.kind = "File" }
                       exact == { n \in fileNodes : n.filePath = includePath }
                       suffix == { n \in fileNodes : n.filePath = "/w/" \o includePath }
                       targetId == IF exact # {} THEN (CHOOSE n \in exact : TRUE).entityId
                                   ELSE IF suffix # {} THEN (CHOOSE n \in suffix : TRUE).entityId
                                   ELSE generateEntityId("file", includePath)
                   IN  \E r \in Range(finalRelationships) :
                         /\ r.type = "INCLUDES"
                         /\ r.sourceId = generateEntityId("file", nodeIndex[d].filePath)
                         /\ r.targetId = targetId

\* C20: once Pass 2 has run, two calls on different lines of the same function
\* to the same declaration have two CALLS edges, with different entityIds, in
\* the relationships handed to the store.
C20_CallsOnDifferentLinesAreDistinctEdges ==
    (nodeIndex # <<>> /\ pc # "resolveRelationships"
       /\ ~resolveRelationshipsThrows(nodeIndex, tree.throwing))
        => \A sourceFile \in { sf \in TsSourceFiles :
                                 MapHas(nodeIndex, generateEntityId("file", sf.path)) } :
             \A f \in 1..Len(sourceFile.functions) :
               LET calls == sourceFile.functions[f].calls
               IN  \A i, j \in 1..Len(calls) :
                     (calls[i].target = calls[j].target /\ calls[i].target # NoDecl
                        /\ calls[i].line # calls[j].line)
                     => LET targetId == getTargetDeclarationInfo(calls[i].target, sourceFile.path).entityId
                        IN  \E r1, r2 \in Range(finalRelationships) :
                              /\ r1.type = "CALLS" /\ r2.type = "CALLS"
                              /\ r1.targetId = targetId /\ r2.targetId = targetId
                              /\ r1.sourceId = r2.sourceId
                              /\ r1.entityId # r2.entityId

(***************************************************************************)
(* C21.  After a node batch is upserted, every node of the batch is in the *)
(* store with exactly one label of NODE_LABELS, the label of its kind, for *)
(* every kind a parser emits and whatever the node was before.             *)
(***************************************************************************)
C21_UpsertedNodesCarryTheLabelOfTheirKind ==
    \A k \in 1..Len(log) :
        (log[k].result = "committed" /\ log[k].batch.kind = "nodes") =>
            \A i \in 1..Len(log[k].batch.items) :
                LET node == log[k].batch.items[i]
                IN  /\ \E n \in BagToSet(store.nodes) : n.entityId = node.entityId
                    /\ \A n \in BagToSet(store.nodes) :
                           n.entityId = node.entityId => n.labels \cap NODE_LABELS = { node.kind }

(***************************************************************************)
(* C22.  Every RESOLVES_IMPORT edge of the final edge set targets a node   *)
(* of the node index that is an export, named or default, and that carries *)
(* the name of the imported symbol.                                        *)
(***************************************************************************)
C22_ResolvesImportTargetsAnIndexedExport ==
    \A e \in 1..Len(finalRelationships) :
        LET rel == finalRelationships[e]
            targetNode == IndexGet(nodeIndex, rel.targetId)
        IN  rel.type = "RESOLVES_IMPORT" =>
              /\ targetNode # Null
              /\ \/ targetNode.isExported
                 \/ "isExported" \in targetNode.properties
                 \/ "isDefaultExport" \in targetNode.properties
              /\ "targetSymbol" \in DOMAIN rel => targetNode.name = rel.targetSymbol

(***************************************************************************)
(* C23.  Within a write phase every node batch has been committed before   *)
(* the first relationship batch is submitted: when a relationship batch is *)
(* in the log of the run, each node batch of the run is in the log before  *)
(* it, committed, and no node batch is still to be submitted.              *)
(***************************************************************************)
C23_NodeBatchesCommitBeforeEdgeBatches ==
    \A k \in 1..Len(log) :
        log[k].batch.kind = "relationships" =>
            LET nodeBatches == Batches(pass1Nodes, storageBatchSize)
            IN  /\ \A i \in 1..Len(nodeBatches) :
                       \E j \in 1..(k - 1) :
                           /\ log[j].batch = Batch("nodes", "", nodeBatches[i])
                           /\ log[j].result = "committed"
                /\ \A q \in 1..Len(writeQueue) : writeQueue[q].kind # "nodes"

\* a relationship batch was submitted after several node batches
C23_Witness ==
    /\ Len(Batches(pass1Nodes, storageBatchSize)) >= 2
    /\ \E k \in 1..Len(log) : log[k].batch.kind = "relationships"

(***************************************************************************)
(* C24.  For every list of records and every text of STORAGE_BATCH_SIZE    *)
(* the batch size is a positive integer, and it is 100 when the variable   *)
(* is unset or its text is not a positive integer; every submitted batch   *)
(* holds between one and batchSize records, a relationship batch holds     *)
(* relationships of its one type; and when the calls have returned (the    *)
(* loops advance by batchSize >= 1, so they do) each record was submitted  *)
(* in exactly one batch.                                                   *)
(***************************************************************************)
C24_BatchSizeIsValidAndBatchesPartition ==
    LET env == envStorageBatchSize
        IsPositiveInteger ==
            /\ Len(env) >= 1
            /\ \A k \in 1..Len(env) : env[k] \in { "0", "1", "2", "3", "4", "5", "6", "7", "8", "9" }
            /\ \E k \in 1..Len(env) : env[k] # "0"
        Occurrences(kind, record) ==
            Cardinality({ bi \in (1..Len(submitted)) \X (1..MaxRecords) :
                            /\ submitted[bi[1]].kind = kind
                            /\ bi[2] <= Len(submitted[bi[1]].items)
                            /\ submitted[bi[1]].items[bi[2]] = record })
    IN  /\ batchSize \in Nat /\ batchSize >= 1
        /\ ~IsPositiveInteger => batchSize = 100
        /\ \A b \in 1..Len(submitted) :
              /\ Len(submitted[b].items) \in 1..batchSize
              /\ submitted[b].kind = "relationships" =>
                    \A k \in 1..Len(submitted[b].items) : submitted[b].items[k].type = submitted[b].type
        /\ saveCalls = <<>> =>
              /\ \A k \in 1..Len(finalRecords.nodes) : Occurrences("nodes", finalRecords.nodes[k]) = 1
              /\ \A k \in 1..Len(finalRecords.relationships) :
                    Occurrences("relationships", finalRecords.relationships[k]) = 1

\* C25: at every moment of Pass 1 the number of live Python child processes
\* of a run is at most a fixed bound N, about the number of CPUs, whatever
\* the number of .py files of the run.
C25_LivePythonChildrenAreBounded ==
    \A r \in DOMAIN invocations :
        Cardinality({ child \in childProcesses : child.invocation = r }) <= cpuCount

\* C26: after collectResults has returned, none of the result files written
\* by the Pass 1 of that run remains in the temporary directory, whether it
\* was merged, invalid, unreadable, or the listing of the directory failed.
C26_NoTempFileRemainsAfterCollectResults ==
    \A r \in DOMAIN invocations :
        invocations[r].pc = "collected" =>
            { f \in tempFiles : f.invocation = r } = {}

\* C30: two analyze invocations of one process do not interfere through the
\* temporary directory: collectResults of a run merges only result files
\* written by its own Pass 1, and a result file is deleted only by the run
\* that wrote it.
C30_RunsDoNotShareTempFiles ==
    /\ \A r \in DOMAIN invocations :
           \A f \in invocations[r].merged : f.invocation = r
    /\ \A u \in unlinked : u.by = u.file.invocation

\* the members declared in a Java syntax tree, each with the entity id of
\* its nearest enclosing class or interface declaration
RECURSIVE enclosingContainers(_, _, _)
enclosingContainers(node, containerId, package) ==
    LET qualifiedName == IF package # "" THEN package \o "." \o node.name ELSE node.name
        inner == CASE node.type = "class_declaration" -> generateEntityId("javaclass", qualifiedName)
                   [] node.type = "interface_declaration" -> generateEntityId("javainterface", qualifiedName)
                   [] OTHER -> containerId
        here == IF node.type \in { "method_declaration", "field_declaration" } /\ containerId # ""
                THEN { [ name |-> node.name, startLine |-> node.startLine, parentId |-> containerId ] }
                ELSE {}
    IN  here \cup UNION { enclosingContainers(node.namedChildren[i], inner, package) :
                              i \in 1..Len(node.namedChildren) }

\* C27: the Java visitor restores the current container when it leaves a
\* class or interface declaration, so every method and field of the merged
\* results has as parentId, and as source of its HAS_METHOD or HAS_FIELD
\* relationship, its nearest enclosing class or interface.
C27_MembersAttachToTheirNearestContainer ==
    \A i \in 1..Len(pass1Nodes) :
        LET node == pass1Nodes[i]
        IN  node.kind \in { "JavaMethod", "JavaField" } =>
                \A javaFile \in { f \in { JavaFileX, JavaFileY, JavaFileOuter } : f.path = node.filePath } :
                    LET children == javaFile.rootNode.namedChildren
                        packages == { children[k].name : k \in { j \in 1..Len(children) :
                                          children[j].type = "package_declaration" } }
                        package == IF packages = {} THEN "" ELSE CHOOSE p \in packages : TRUE
                    IN  \A member \in enclosingContainers(javaFile.rootNode, "", package) :
                            (member.name = node.name /\ member.startLine = node.startLine) =>
                                /\ node.parentId = member.parentId
                                /\ \A r \in 1..Len(pass1Relationships) :
                                       ( /\ pass1Relationships[r].type \in { "HAS_METHOD", "HAS_FIELD" }
                                         /\ pass1Relationships[r].targetId = node.entityId ) =>
                                           pass1Relationships[r].sourceId = member.parentId

\* C28: Pass 2 is read-only on nodes.  From the merge of the Pass-1 results
\* to the end of the write phase the merged node list does not change; after
\* Pass 2 the node index is still the index built from that list; and the
\* node batches handed to the store writer are, in order, exactly the merged
\* node list.
C28_Pass2LeavesTheNodesAlone ==
    /\ [][(pc \in { "resolveRelationships", "initializeDriver", "store" }) =>
               (pass1Nodes' = pass1Nodes)]_vars
    /\ [] ( pc \in { "initializeDriver", "store" } => nodeIndex = buildNodeIndex(pass1Nodes) )
    /\ [] ( pc = "store" =>
              LET committed == SelectSeq(log, LAMBDA entry : entry.result = "committed")
                  handed == [ k \in 1..Len(committed) |-> committed[k].batch ] \o writeQueue
                  nodeBatches == SelectSeq(handed, LAMBDA batch : batch.kind = "nodes")
              IN  Flatten([ k \in 1..Len(nodeBatches) |-> nodeBatches[k].items ]) = pass1Nodes )

\* Pass 2 emitted relationships over the index and a node batch of the write
\* phase was committed
C28_Witness ==
    /\ pc = "store"
    /\ Len(finalRelationships) > Len(pass1Relationships)
    /\ \E k \in 1..Len(log) : log[k].result = "committed" /\ log[k].batch.kind = "nodes"

\* C29: whichever way analyze settles (no files, no nodes, written, or an
\* error thrown), every driver created so far is closed, every session a
\* transaction opened is closed, and the client holds no driver.
C29_DriverAndSessionsClosedWhenAnalyzeSettles ==
    analyzeCall.pc = "settled" =>
        /\ neo4jClient.driver = 0
        /\ \A d \in 1..Len(drivers) :
               /\ ~drivers[d].open
               /\ \A k \in 1..Len(drivers[d].sessions) : drivers[d].sessions[k] = "closed"

====
